---- MODULE Spec2Model ----
(***************************************************************************)
(* Compositor-level visual regression testing.                             *)
(*                                                                         *)
(* Spec        : the Comparison Service (lib/wdio/compositor-service.js),  *)
(*               one action per exposed operation, each call atomic.       *)
(* SpecCapture : one fingerprint capture, one step per awaited call, for   *)
(*               the service's captureCompositorData and the CLI's         *)
(*               extractPaintCommands; FairCapture adds the fairness of    *)
(*               the event loop.                                           *)
(* SpecFn      : the pure functions of the pipeline (decoding of a command *)
(*               log, normalisation, hash, diff) on drawn inputs.          *)
(* SpecOverlap : two overlapping compareCompositorData calls for one name. *)
(* SpecCliCompare : runs of comparePages of lib/node/capture-compositor.js *)
(*               with baseline.json and actual.json kept between them.     *)
(* SpecPixelCli : runs of comparePages of lib/node/capture-pixels.js with  *)
(*               the image folders kept between them.                      *)
(***************************************************************************)
EXTENDS Integers, Sequences, FiniteSets, TLC

(***************************************************************************)
(* Bounds of the model.                                                    *)
(***************************************************************************)
MaxClock == 1        \* Date.now() ranges over 0..MaxClock
MaxCalls == 3        \* operations called on the service in one run

(***************************************************************************)
(* Values.  A JavaScript string is modelled by the set of substrings the   *)
(* code looks for in it (toks) and its length (n); a number by its value   *)
(* (n).                                                                    *)
(***************************************************************************)
Undefined == "undefined"

Str(toks, n) == [kind |-> "string", toks |-> toks, n |-> n]
Num(n) == [kind |-> "number", toks |-> {}, n |-> n]
UndefinedVal == [kind |-> "undefined", toks |-> {}, n |-> 0]

\* JavaScript truthiness of a value / of a name field
Truthy(v) ==
    CASE v.kind = "undefined" -> FALSE
      [] v.kind = "string" -> v.n > 0
      [] v.kind = "number" -> v.n # 0

TruthyName(s) == s # Undefined /\ s # ""

\* params is an object: its entries in insertion order, <<key, value>>
Get(params, key) ==
    IF \E i \in 1..Len(params) : params[i][1] = key
    THEN params[CHOOSE i \in 1..Len(params) : params[i][1] = key][2]
    ELSE UndefinedVal

\* one entry of a command log, as the protocol delivers it
RawCmd(m, c, n, ps) ==
    [method |-> m, cmd |-> c, name |-> n, params |-> ps, isNull |-> FALSE]
NullEntry ==
    [method |-> Undefined, cmd |-> Undefined, name |-> Undefined,
     params |-> <<>>, isNull |-> TRUE]

(***************************************************************************)
(* Script filter of the layer loop (compositor-service.js 150-166).        *)
(***************************************************************************)
ScriptMarkers ==
    {"const ", "let ", "var ", "function", "document.", "window.", "=>"}
MaxTextLen == 500

LooksLikeScript(text) ==
    \/ text.toks \cap ScriptMarkers # {}
    \/ text.n > MaxTextLen

\* the predicate given to commands.filter: TRUE keeps the command
KeepAllPredicate(cmd) == TRUE
FilterPredicate(cmd) ==
    IF cmd.method = "drawTextBlob" /\ Truthy(Get(cmd.params, "text"))
    THEN ~LooksLikeScript(Get(cmd.params, "text"))
    ELSE TRUE

\* the predicate throws a TypeError on a null entry (cmd.method) and on a
\* truthy text that is no string (text.includes)
FilterThrows(commands) ==
    \E i \in 1..Len(commands) :
        \/ commands[i].isNull
        \/ /\ commands[i].method = "drawTextBlob"
           /\ Truthy(Get(commands[i].params, "text"))
           /\ Get(commands[i].params, "text").kind # "string"

FilterCommands(commands) == SelectSeq(commands, FilterPredicate)

(***************************************************************************)
(* Decoding of a command log (compositor-service.js 135-148).              *)
(* A log is [shape, body, cmds]:                                           *)
(*   shape "none"   : falsy commandLog                                     *)
(*   shape "text"   : a string; body says what JSON.parse gives:           *)
(*                    "array" (cmds), "object" (the one command cmds[1]),  *)
(*                    "wrapped" ({commands: cmds}) or "bad" (it throws)    *)
(*   shape "array"  : cmds                                                 *)
(*   shape "object" : body "object" (one command) or "wrapped"             *)
(* The result says whether `commands` is an array, and its entries.        *)
(***************************************************************************)
Log(shape, body, cmds) == [shape |-> shape, body |-> body, cmds |-> cmds]
NotAnArray == [isArray |-> FALSE, cmds |-> <<>>]

DecodeCommandLog(log) ==
    CASE log.shape = "none" -> NotAnArray
      [] log.shape = "text" ->
            IF log.body = "array"
            THEN [isArray |-> TRUE, cmds |-> log.cmds]
            ELSE NotAnArray
      [] log.shape = "array" -> [isArray |-> TRUE, cmds |-> log.cmds]
      [] log.shape = "object" -> [isArray |-> TRUE, cmds |-> log.cmds]

(***************************************************************************)
(* Normalisation, serialisation and hash (compositor-service.js 225-242).  *)
(***************************************************************************)
ResolveMethodLastAlias(cmd) ==
    IF TruthyName(cmd.name) THEN cmd.name
    ELSE IF TruthyName(cmd.cmd) THEN cmd.cmd
    ELSE IF TruthyName(cmd.method) THEN cmd.method
    ELSE "unknown"
ResolveMethod(cmd) ==
    IF TruthyName(cmd.method) THEN cmd.method
    ELSE IF TruthyName(cmd.cmd) THEN cmd.cmd
    ELSE IF TruthyName(cmd.name) THEN cmd.name
    ELSE "unknown"

ProcessCommand(cmd) == [method |-> ResolveMethod(cmd), params |-> cmd.params]

ProcessCommands(allCommands) ==
    [i \in 1..Len(allCommands) |-> ProcessCommand(allCommands[i])]

\* JSON.stringify of processed commands: per command the method and the
\* entries of params in their insertion order
Stringify(commands) ==
    [i \in 1..Len(commands) |-> <<commands[i].method, commands[i].params>>]

\* sha256(...).digest('hex').substring(0, 16), taken as collision free
Hash(commands) == [tag |-> "sha256", ser |-> Stringify(commands), ms |-> 0]

\* 'error-' + Date.now()
ErrorHash(ms) == [tag |-> "error", ser |-> <<>>, ms |-> ms]

\* text commands synthesized from the visible DOM text nodes (178-219)
TextCommand(node) ==
    RawCmd("drawTextBlob", Undefined, Undefined,
           << <<"text", node.text>>, <<"x", Num(node.x)>>, <<"y", Num(node.y)>> >>)

TextCommands(texts) == [i \in 1..Len(texts) |-> TextCommand(texts[i])]

(***************************************************************************)
(* Positional diff (compositor-service.js 400-427).  Indices are the       *)
(* code's, from 0.                                                         *)
(***************************************************************************)
Max(a, b) == IF a >= b THEN a ELSE b

Range(seq) == {seq[k] : k \in 1..Len(seq)}

Indices(n) == [i \in 1..n |-> i - 1]

SameJson(a, b) == Stringify(<<a>>) = Stringify(<<b>>)

generateDiffOfNothing(baselineCommands, actualCommands) ==
    [added |-> <<>>, removed |-> <<>>, modified |-> <<>>]
\* the loop bounded by the shorter sequence
generateDiffOverShorter(baselineCommands, actualCommands) ==
    LET minLen == IF Len(baselineCommands) < Len(actualCommands)
                  THEN Len(baselineCommands) ELSE Len(actualCommands)
        differs == SelectSeq(Indices(minLen),
                       LAMBDA i : ~SameJson(baselineCommands[i + 1],
                                            actualCommands[i + 1]))
    IN  [added |-> <<>>, removed |-> <<>>,
         modified |-> [k \in 1..Len(differs) |->
                      [index |-> differs[k],
                       baseline |-> baselineCommands[differs[k] + 1],
                       actual |-> actualCommands[differs[k] + 1]]]]
\* the two commands of an index compared as objects, never equal
generateDiffByIdentity(baselineCommands, actualCommands) ==
    LET nb == Len(baselineCommands)
        na == Len(actualCommands)
    IN  [added |-> [k \in 1..Max(na - nb, 0) |->
                      [index |-> nb + k - 1, command |-> actualCommands[nb + k]]],
         removed |-> [k \in 1..Max(nb - na, 0) |->
                      [index |-> na + k - 1, command |-> baselineCommands[na + k]]],
         modified |-> [k \in 1..(IF nb < na THEN nb ELSE na) |->
                      [index |-> k - 1,
                       baseline |-> baselineCommands[k],
                       actual |-> actualCommands[k]]]]
generateDiff(baselineCommands, actualCommands) ==
    LET maxLen == Max(Len(baselineCommands), Len(actualCommands))
        hasB(i) == i < Len(baselineCommands)
        hasA(i) == i < Len(actualCommands)
        isAdded(i) == ~hasB(i)
        isRemoved(i) == hasB(i) /\ ~hasA(i)
        isModified(i) ==
            /\ hasB(i) /\ hasA(i)
            /\ ~SameJson(baselineCommands[i + 1], actualCommands[i + 1])
        added == SelectSeq(Indices(maxLen), isAdded)
        removed == SelectSeq(Indices(maxLen), isRemoved)
        modified == SelectSeq(Indices(maxLen), isModified)
    IN  [added |-> [k \in 1..Len(added) |->
                      [index |-> added[k], command |-> actualCommands[added[k] + 1]]],
         removed |-> [k \in 1..Len(removed) |->
                      [index |-> removed[k], command |-> baselineCommands[removed[k] + 1]]],
         modified |-> [k \in 1..Len(modified) |->
                      [index |-> modified[k],
                       baseline |-> baselineCommands[modified[k] + 1],
                       actual |-> actualCommands[modified[k] + 1]]]]

NoDiff == [added |-> <<>>, removed |-> <<>>, modified |-> <<>>, isNull |-> TRUE]

(***************************************************************************)
(* The pages the browser can show.  A page is its compositor layers (each  *)
(* with the command log the protocol returns for it), its visible DOM text *)
(* nodes, the command log of a snapshot of the layer id 'document', what   *)
(* the browser reports about it, and its screenshot.                       *)
(***************************************************************************)
Plain == Str({"Hello"}, 5)
Script == Str({"function", "("}, 24)
Long == Str({"lorem"}, 501)

DrawRect == RawCmd("drawRect", Undefined, Undefined, << <<"left", Num(10)>> >>)
DrawText(t) == RawCmd("drawTextBlob", Undefined, Undefined, << <<"text", t>> >>)
\* the same command with its name in the aliased field cmd / name
DrawTextCmd(t) == RawCmd(Undefined, "drawTextBlob", Undefined, << <<"text", t>> >>)
DrawPaintName == RawCmd(Undefined, Undefined, "drawPaint", <<>>)

Layer(id, log) == [layerId |-> id, log |-> log]
Node(t, x, y) == [text |-> t, x |-> x, y |-> y]
Image(w, h, px) == [w |-> w, h |-> h, px |-> px]

PageStatic ==
    [layers |-> << Layer("L1", Log("array", "array", <<DrawRect, DrawText(Plain)>>)),
                   Layer("L2", Log("text", "array", <<DrawText(Script), DrawPaintName>>)) >>,
     texts |-> << Node(Plain, 8, 20) >>,
     docLog |-> Log("text", "array", <<DrawRect>>),
     meta |-> "test.html",
     png |-> Image(2, 1, <<0, 0>>)]

PageAliased ==
    [layers |-> << Layer("L1", Log("object", "wrapped", <<DrawTextCmd(Script), DrawRect>>)),
                   Layer("L2", Log("array", "array", <<DrawRect, NullEntry>>)) >>,
     texts |-> << Node(Script, 8, 20) >>,
     docLog |-> Log("none", "bad", <<>>),
     meta |-> "test.html",
     png |-> Image(2, 1, <<0, 200>>)]

PageEmpty ==
    [layers |-> << >>,
     texts |-> << >>,
     docLog |-> Log("text", "array", <<DrawRect>>),
     meta |-> "test.html",
     png |-> Image(1, 1, <<0>>)]

\* a page whose first layer has a command log that is text and no JSON
PageGarbled ==
    [layers |-> << Layer("L1", Log("text", "bad", <<>>)),
                   Layer("L2", Log("array", "array", <<DrawRect>>)) >>,
     texts |-> << Node(Plain, 8, 20) >>,
     docLog |-> Log("text", "bad", <<>>),
     meta |-> "test.html",
     png |-> Image(2, 1, <<0, 0>>)]

\* PageStatic with one pixel of its screenshot slightly off
PageTinted == [PageStatic EXCEPT !.png = Image(2, 1, <<0, 5>>)]

\* the pages shown to the service, and those a single capture is followed on
Pages == {PageStatic, PageEmpty}
PixelPages == {PageStatic, PageTinted, PageAliased, PageEmpty}
CapturePages == {PageStatic, PageAliased, PageEmpty, PageGarbled}

(***************************************************************************)
(* State.                                                                  *)
(*   options : the service's options, fixed by the constructor             *)
(*   now     : the last reading of the clock (Date.now())                  *)
(*   fs      : the three directories, file -> content                      *)
(*   last    : the last call made on the service and what it gave          *)
(*   created : per name, the artifact of the compare that created the      *)
(*             baseline (history)                                          *)
(*   calls   : the number of operations called so far                      *)
(*   env     : what the constructor was given: the CI environment variable *)
(*             and the mode of its options argument (history)              *)
(***************************************************************************)
VARIABLES options, now, fs, last, created, calls

svcVars == <<options, now, fs, last, created, calls>>

VARIABLE env

Names == {"home"}
Modes == {"compositor", "pixel"}
DefaultThreshold == 1            \* pixelThreshold: 0.1, in tenths
Thresholds == {0, DefaultThreshold}

\* `${name}.json`, `${name}.png`, `${name}-diff.png`
Files == Names \X {"json", "png", "diff.png"}
NoFile == [exists |-> FALSE]
EmptyDir == [f \in Files |-> NoFile]

WriteFile(files, dir, file, content) ==
    [files EXCEPT ![dir] = [@ EXCEPT ![file] = content]]

Exists(files, dir, file) == files[dir][file] # NoFile

\* the directory a capture persists into (259, 281, 336)
CaptureDirActual == "actual"
CaptureDir == IF options.updateBaseline THEN "baseline" ELSE "actual"

(***************************************************************************)
(* Calls that can fail, <<call, layer index or 0>>.  F is the set of calls *)
(* that fail during one operation.                                         *)
(***************************************************************************)
\*   try          : a call of the try block outside the layer loop
\*                  (53-110, 178, 253-255, 261)
\*   catch        : a call of the catch block (275-277, 283)
\*   snapshot, i  : makeSnapshot or snapshotCommandLog of layer i (125-133)
\* A failing releaseSnapshot (171) changes neither the commands nor the
\* outcome of the call; SpecCapture follows it.
CompositorSites(nLayers) ==
    {<<"try", 0>>, <<"catch", 0>>}
    \cup ({"snapshot"} \X (1..nLayers))

\*   capture      : takeScreenshot (335) or the write of the image (339)
\*   file         : copyFileSync (354), a read (368, 369) or the write of
\*                  the diff image (387)
PixelSites == {<<"capture", 0>>, <<"file", 0>>}

FaultSets(sites) == SUBSET sites

(***************************************************************************)
(* captureCompositorData (51-287), as one call.                            *)
(* page is the page the browser shows during the call, t the clock during *)
(* the call, detected what the race of 112-115 gave: the layers of the     *)
(* event, or none after the timeout.                                       *)
(***************************************************************************)
LayerCommands(layer, i, F) ==
    LET dec == DecodeCommandLog(layer.log)
    IN  IF <<"snapshot", i>> \in F
        THEN <<>>
        ELSE IF ~dec.isArray \/ FilterThrows(dec.cmds)
        THEN <<>>
        ELSE FilterCommands(dec.cmds)

RECURSIVE ExtractLayers(_, _, _)
ExtractLayers(layers, i, F) ==
    IF i > Len(layers)
    THEN <<>>
    ELSE LayerCommands(layers[i], i, F) \o ExtractLayers(layers, i + 1, F)

Artifact(name, t, hash, mode, layerCount, commands, error, metadata) ==
    [name |-> name, timestamp |-> t, hash |-> hash, mode |-> mode,
     layerCount |-> layerCount, commands |-> commands, error |-> error,
     metadata |-> metadata]

\* the body of the try block fails before anything is persisted
TryFails(F) == <<"try", 0>> \in F

\* the catch block's own calls (275-277, 283) fail
CatchFails(F) == <<"catch", 0>> \in F

\* what the call computes, apart from name and time
CaptureRun(page, detected, F) ==
    LET allCommands == ExtractLayers(detected, 1, F) \o TextCommands(page.texts)
        processedCommands == ProcessCommands(allCommands)
    IN  IF ~TryFails(F)
        THEN [kind |-> "data", layerCount |-> Len(detected),
              commands |-> processedCommands, metadata |-> page.meta,
              faulty |-> F # {}]
        ELSE IF ~CatchFails(F)
        THEN [kind |-> "error", layerCount |-> 0, commands |-> <<>>,
              metadata |-> page.meta, faulty |-> TRUE]
        ELSE [kind |-> "rejected", layerCount |-> 0, commands |-> <<>>,
              metadata |-> page.meta, faulty |-> TRUE]

\* what the race of 112-115 can give for the page shown
Detections(page) == {page.layers, <<>>}

\* per page, every run of the call: every detection, every set of failing calls
CaptureRuns ==
    [page \in CapturePages |->
        UNION {{CaptureRun(page, detected, F) :
                    F \in FaultSets(CompositorSites(Len(detected)))} :
               detected \in Detections(page)}]

CaptureResultHashingData(name, t, run) ==
    CASE run.kind = "data" ->
            [rejected |-> FALSE,
             data |-> Artifact(name, t, [Hash(run.commands) EXCEPT !.ms = t],
                               "compositor", run.layerCount, run.commands, FALSE,
                               run.metadata)]
      [] run.kind = "error" ->
            [rejected |-> FALSE,
             data |-> Artifact(name, t, ErrorHash(t), Undefined, 0, <<>>, TRUE,
                               run.metadata)]
      [] run.kind = "rejected" -> [rejected |-> TRUE, data |-> NoFile]

CaptureResult(name, t, run) ==
    CASE run.kind = "data" ->
            [rejected |-> FALSE,
             data |-> Artifact(name, t, Hash(run.commands), "compositor",
                               run.layerCount, run.commands, FALSE, run.metadata)]
      [] run.kind = "error" ->
            [rejected |-> FALSE,
             data |-> Artifact(name, t, ErrorHash(t), Undefined, 0, <<>>, TRUE,
                               run.metadata)]
      [] run.kind = "rejected" -> [rejected |-> TRUE, data |-> NoFile]

\* the artifact written to both directories
AfterCaptureInBoth(name, cap) ==
    IF cap.rejected THEN fs
    ELSE WriteFile(WriteFile(fs, "baseline", <<name, "json">>, cap.data),
                   "actual", <<name, "json">>, cap.data)

\* the directories after the capture
AfterCapture(name, cap) ==
    IF cap.rejected THEN fs
    ELSE WriteFile(fs, CaptureDir, <<name, "json">>, cap.data)

\* the record of a call: the operation, whether a call it made failed,
\* whether it returned or rejected, the status it returned, the baseline file
\* before the call (pre), the artifact it captured (data), the baseline it
\* loaded and the diff it returned
Call(op, mode, name, faulty, outcome, status, pre, data, baselineData, diff) ==
    [op |-> op, mode |-> mode, name |-> name, faulty |-> faulty,
     outcome |-> outcome, status |-> status, pre |-> pre, data |-> data,
     baselineData |-> baselineData, diff |-> diff, mismatchedPixels |-> 0]

NoCall ==
    Call("none", "none", "none", FALSE, "none", "none", NoFile, NoFile, NoFile, NoDiff)

\* fs.writeFileSync(baselinePath, ...) of 296
PersistBaselineSkipped(files, name, data) == files
PersistBaseline(files, name, data) ==
    WriteFile(files, "baseline", <<name, "json">>, data)

\* baselineData.hash === actualData.hash of 312
HashesMatchByLayerCount(baselineData, actualData) ==
    baselineData.layerCount = actualData.layerCount
HashesMatch(baselineData, actualData) == baselineData.hash = actualData.hash

captureCompositorData(name, t, run) ==
    LET cap == CaptureResult(name, t, run)
    IN  /\ fs' = AfterCapture(name, cap)
        /\ last' = Call("capture", "compositor", name, run.faulty,
                        IF cap.rejected THEN "rejected" ELSE "returned", "none",
                        fs.baseline[<<name, "json">>], cap.data, NoFile, NoDiff)
        /\ now' = t
        /\ UNCHANGED <<options, created>>

(***************************************************************************)
(* compareCompositorData (289-332), as one call.  fileFails: the write    *)
(* (296) or the read (309) of the baseline file fails.                     *)
(***************************************************************************)
compareCompositorData(name, t, run, fileFails) ==
    LET baselinePath == <<name, "json">>
        pre == fs.baseline[baselinePath]
        cap == CaptureResult(name, t, run)
        fs1 == AfterCapture(name, cap)
        baselineData == fs1.baseline[baselinePath]
        match == HashesMatch(baselineData, cap.data)
        diff == IF match THEN NoDiff
                ELSE generateDiff(baselineData.commands, cap.data.commands)
        rejected(files) ==
            /\ fs' = files
            /\ last' = Call("compare", "compositor", name,
                            run.faulty \/ fileFails, "rejected", "none",
                            pre, cap.data, NoFile, NoDiff)
            /\ UNCHANGED created
    IN  /\ now' = t
        /\ UNCHANGED options
        /\ IF ~Exists(fs, "baseline", baselinePath)
           THEN IF cap.rejected \/ fileFails
                THEN rejected(fs1)
                ELSE /\ fs' = PersistBaseline(fs1, name, cap.data)
                     /\ last' = Call("compare", "compositor", name, run.faulty,
                                     "returned", "created", pre, cap.data,
                                     NoFile, NoDiff)
                     /\ created' = [created EXCEPT ![name] = cap.data]
           ELSE IF cap.rejected \/ fileFails
                THEN rejected(fs1)
                ELSE /\ fs' = fs1
                     /\ last' = Call("compare", "compositor", name, run.faulty,
                                     "returned",
                                     IF match THEN "match" ELSE "mismatch",
                                     pre, cap.data, baselineData, diff)
                     /\ UNCHANGED created

(***************************************************************************)
(* Pixel strategy of the service (334-398).                                *)
(* pixelmatch on grey pixels: a pixel mismatches when its YIQ delta        *)
(* 0.5053 * d^2 exceeds 35215 * threshold^2 (threshold in tenths here);    *)
(* it throws when the two buffers differ in length.  Images this small     *)
(* have no anti-aliased pixels.                                            *)
(***************************************************************************)
PixelMismatch(a, b, tenths) == 5053 * (a - b) * (a - b) > 352150 * tenths * tenths

SizesDiffer(img1, img2) == Len(img1.px) # Len(img2.px)

pixelmatch(img1, img2, width, height, tenths) ==
    Cardinality({i \in 1..(width * height) : PixelMismatch(img1.px[i], img2.px[i], tenths)})

\* this.options.pixelThreshold || 0.1
EffectiveThreshold == IF options.pixelThreshold = 0 THEN DefaultThreshold ELSE options.pixelThreshold

PixelCaptureFails(F) == <<"capture", 0>> \in F

AfterPixelCapture(name, page, F) ==
    IF PixelCaptureFails(F) THEN fs
    ELSE WriteFile(fs, CaptureDir, <<name, "png">>, page.png)

capturePixelData(name, page, F) ==
    /\ fs' = AfterPixelCapture(name, page, F)
    /\ last' = Call("capture", "pixel", name, F # {},
                    IF PixelCaptureFails(F) THEN "rejected" ELSE "returned", "none",
                    fs.baseline[<<name, "png">>],
                    IF PixelCaptureFails(F) THEN NoFile ELSE page.png, NoFile, NoDiff)
    /\ UNCHANGED <<options, now, created>>

comparePixelData(name, page, F) ==
    LET baselinePath == <<name, "png">>
        pre == fs.baseline[baselinePath]
        fs1 == AfterPixelCapture(name, page, F)
        baseline == fs1.baseline[baselinePath]
        actual == fs1.actual[baselinePath]
        mismatchedPixels ==
            pixelmatch(baseline, actual, baseline.w, baseline.h, EffectiveThreshold)
        rejected(files) ==
            /\ fs' = files
            /\ last' = Call("compare", "pixel", name, F # {}, "rejected", "none",
                            pre, NoFile, NoFile, NoDiff)
            /\ UNCHANGED created
    IN  /\ UNCHANGED <<options, now>>
        /\ IF ~Exists(fs, "baseline", baselinePath)
           THEN IF PixelCaptureFails(F) \/ <<"file", 0>> \in F
                THEN rejected(fs1)
                ELSE /\ fs' = WriteFile(fs1, "baseline", baselinePath,
                                        fs1[CaptureDir][baselinePath])
                     /\ last' = Call("compare", "pixel", name, F # {}, "returned",
                                     "created", pre, page.png, NoFile, NoDiff)
                     /\ created' = [created EXCEPT ![name] = page.png]
           ELSE IF \/ PixelCaptureFails(F)
                   \/ <<"file", 0>> \in F
                   \/ ~Exists(fs1, "actual", baselinePath)
                   \/ SizesDiffer(baseline, actual)
                THEN rejected(fs1)
                ELSE IF mismatchedPixels > 0 /\ <<"file", 0>> \in F
                THEN rejected(fs1)
                ELSE /\ fs' = IF mismatchedPixels > 0
                              THEN WriteFile(fs1, "diff", <<name, "diff.png">>,
                                             Image(baseline.w, baseline.h, <<>>))
                              ELSE fs1
                     /\ UNCHANGED created
                     /\ last' = [Call("compare", "pixel", name, F # {}, "returned",
                                      IF mismatchedPixels = 0 THEN "match" ELSE "mismatch",
                                      pre, actual, baseline, NoDiff)
                                 EXCEPT !.mismatchedPixels = mismatchedPixels]

(***************************************************************************)
(* The unified operations (36-49).  Each call is made while the browser    *)
(* shows some page, at some time not before the last call.                 *)
(***************************************************************************)
Times == now..MaxClock

capture(name, page) ==
    IF options.mode = "pixel"
    THEN \E F \in FaultSets(PixelSites) : capturePixelData(name, page, F)
    ELSE \E t \in Times, run \in CaptureRuns[page] :
            captureCompositorData(name, t, run)

compare(name, page) ==
    IF options.mode = "pixel"
    THEN \E F \in FaultSets(PixelSites) : comparePixelData(name, page, F)
    ELSE \E t \in Times, run \in CaptureRuns[page], fileFails \in BOOLEAN :
            compareCompositorData(name, t, run, fileFails)

\* the constructor (6-21): the defaults, overridden by the options given;
\* a field of given that is Undefined is absent
CIValues == {Undefined, "true"}
GivenOptions ==
    {g \in [updateBaseline : BOOLEAN, mode : Modes \cup {Undefined},
            pixelThreshold : Thresholds] :
        g.mode # "pixel" => g.pixelThreshold = DefaultThreshold}

ConstructorByEnvironment(given, ci) ==
    [updateBaseline |-> given.updateBaseline,
     mode |-> IF TruthyName(ci) THEN "pixel" ELSE "compositor",
     pixelThreshold |-> given.pixelThreshold]
Constructor(given, ci) ==
    [updateBaseline |-> given.updateBaseline,
     mode |-> IF given.mode # Undefined THEN given.mode
              ELSE IF TruthyName(ci) THEN "pixel" ELSE "compositor",
     pixelThreshold |-> given.pixelThreshold]

\* a mode is given where it is not the one the environment implies
InitService ==
    /\ \E given \in GivenOptions, ci \in CIValues :
          /\ given.mode # ConstructorByEnvironment(given, ci).mode
          /\ options = Constructor(given, ci)
          /\ env = [CI |-> ci, mode |-> given.mode]
    /\ now = 0
    /\ fs = [baseline |-> EmptyDir, actual |-> EmptyDir, diff |-> EmptyDir]
    /\ last = NoCall
    /\ created = [n \in Names |-> NoFile]
    /\ calls = 0

(***************************************************************************)
(* The pure functions of the pipeline, applied to command sequences drawn  *)
(* from a bounded set: the normalisation (225-238), the hash (241-242) and *)
(* generateDiff (400-427).                                                 *)
(*   fn  : the function applied, "none" before                             *)
(*   arg : the two raw command sequences a and b                           *)
(*   out : what the function gave                                          *)
(***************************************************************************)
VARIABLES fn, arg, out

fnVars == <<fn, arg, out>>

MaxSeqLen == 2       \* length of the command sequences drawn

\* the same rectangle, its params listed in two orders
CmdLeftTop ==
    RawCmd("drawRect", Undefined, Undefined,
           << <<"left", Num(10)>>, <<"top", Num(20)>> >>)
CmdTopLeft ==
    RawCmd("drawRect", Undefined, Undefined,
           << <<"top", Num(20)>>, <<"left", Num(10)>> >>)
\* a text run as the command log gives it, with the handle of its font
CmdTextRun ==
    RawCmd("drawTextBlob", Undefined, Undefined,
           << <<"text", Plain>>, <<"typeface", Num(93)>> >>)

FnCommands == {DrawRect, CmdLeftTop, CmdTopLeft, CmdTextRun}

\* entries that name their operation in no field, in an aliased field after
\* an empty method, and in two fields
CmdUnnamed == RawCmd(Undefined, Undefined, Undefined, <<>>)
CmdEmptyMethod == RawCmd("", "rect", "r", << <<"left", Num(10)>> >>)
CmdTwoNames == RawCmd("drawRect", "rect", Undefined, << <<"left", Num(10)>> >>)

AliasCommands ==
    {DrawTextCmd(Plain), DrawPaintName, CmdUnnamed, CmdEmptyMethod, CmdTwoNames}

SeqsUpTo(S, n) == UNION {[1..k -> S] : k \in 0..n}

\* baseline [A,B,C] and actual [A,X,C,D]
ExampleBaseline == <<DrawRect, DrawText(Plain), DrawPaintName>>
ExampleActual == <<DrawRect, CmdLeftTop, DrawPaintName, CmdTextRun>>

FnInputs ==
    {[a |-> s, b |-> t] : s \in SeqsUpTo(FnCommands, MaxSeqLen),
                          t \in SeqsUpTo(FnCommands, MaxSeqLen)}
    \cup {[a |-> ExampleBaseline, b |-> ExampleActual]}
    \cup {[a |-> s, b |-> <<>>] : s \in SeqsUpTo(AliasCommands, MaxSeqLen)}

Applied(f, result) ==
    /\ fn = "none"
    /\ fn' = f
    /\ out' = result
    /\ UNCHANGED arg

Normalize ==
    Applied("normalize",
            [a |-> ProcessCommands(arg.a), b |-> ProcessCommands(arg.b)])

Fingerprint ==
    Applied("hash",
            [a |-> Hash(ProcessCommands(arg.a)), b |-> Hash(ProcessCommands(arg.b))])

Diff ==
    Applied("generateDiff",
            generateDiff(ProcessCommands(arg.a), ProcessCommands(arg.b)))

\* the commands the service has from one layer whose command log is log,
\* once normalised (135-169, 225-238)
CommandsOfLog(log) == ProcessCommands(LayerCommands(Layer("L1", log), 1, {}))

LogBodies == {"array", "object", "wrapped"}

\* the command list arg.a delivered as text and as the native value the
\* text stands for: a sequence, a single command, or {commands: [...]}
Decode ==
    \E body \in LogBodies :
        /\ body = "object" => Len(arg.a) = 1
        /\ Applied("decode",
                   [body |-> body,
                    text |-> CommandsOfLog(Log("text", body, arg.a)),
                    native |-> CommandsOfLog(
                        Log(IF body = "array" THEN "array" ELSE "object",
                            body, arg.a))])

\* what a capture puts around the commands (245-257): the name it was called
\* with, the time, the number of layers found and the page's metadata
StampNames == {"home", "cart"}
Stamps ==
    [name : StampNames, t : 0..MaxClock, layerCount : 0..1,
     metadata : {"test.html", "other.html"}]

\* the artifact of a capture that did not fail, with raw commands cmds
Stamped(cmds, stamp) ==
    CaptureResult(stamp.name, stamp.t,
                  [kind |-> "data", layerCount |-> stamp.layerCount,
                   commands |-> ProcessCommands(cmds),
                   metadata |-> stamp.metadata, faulty |-> FALSE]).data

\* the fields in which two stamps differ
Differing(sa, sb) == {f \in DOMAIN sa : sa[f] # sb[f]}

\* two captures, of the commands arg.a and arg.b: the second with the
\* stamp of the first, with one field of it different, or with all four
BuildArtifacts ==
    \E sa \in Stamps, sb \in Stamps :
        /\ sa = [name |-> "home", t |-> 0, layerCount |-> 1, metadata |-> "test.html"]
        /\ Cardinality(Differing(sa, sb)) \in {0, 1, 4}
        /\ Applied("artifact", [a |-> Stamped(arg.a, sa), b |-> Stamped(arg.b, sb)])

IdleFn == fn = "idle" /\ arg = [a |-> <<>>, b |-> <<>>] /\ out = <<>>

(***************************************************************************)
(* One fingerprint capture, step by step: captureCompositorData of the     *)
(* service (compositor-service.js 51-287) and extractPaintCommands of the  *)
(* CLI (lib/node/capture-compositor.js 29-174).                            *)
(*                                                                         *)
(*   impl         : "service" or "cli"                                     *)
(*   cpage        : the page captured                                      *)
(*   pc           : the call the capture is at (a stage), "race" while it  *)
(*                  awaits Promise.race, "done" / "rejected" at the end    *)
(*   awaiting     : the call of the stage has been sent and is awaited     *)
(*   outstanding  : the calls sent and not yet answered                    *)
(*   idx          : the layer the loop is at; 0 is the layer 'document'    *)
(*   layers       : the layers discovered                                  *)
(*   listener     : the once-listener for LayerTree.layerTreeDidChange     *)
(*   layerPromise : pending, or resolved with the layers of an event       *)
(*   events       : the events delivered so far                            *)
(*   snapshots    : the snapshot handles held (made and not released)      *)
(*   allCommands  : as in the code                                         *)
(*   result       : what the capture returned                              *)
(* History: made (handles ever obtained), releaseSent (handles given to    *)
(* releaseSnapshot), attempted (layers given to makeSnapshot), okLayers    *)
(* (layers whose snapshot and command log were obtained and processed),    *)
(* outerFault (a call outside the layer loop failed), raceBy (what ended   *)
(* the race).                                                              *)
(***************************************************************************)
VARIABLES impl, cpage, pc, awaiting, outstanding, idx, layers, listener,
          layerPromise, events, snapshots, allCommands, result,
          made, releaseSent, attempted, okLayers, outerFault, raceBy

capVars == <<impl, cpage, pc, awaiting, outstanding, idx, layers, listener,
             layerPromise, events, snapshots, allCommands, result,
             made, releaseSent, attempted, okLayers, outerFault, raceBy>>

\* A run: the captures made one after the other on the same page, by a
\* test of the service or by comparePages of the CLI (192-277), which
\* launches the browser in its first capture and closes it at its end.
\*   browser  : the CLI's browser handle: "none", "open" or "closed"
\*   closes   : the calls of browser.close()
\*   captures : the captures started
\*   first    : what the first capture of the run discovered and returned
VARIABLES browser, closes, captures, first

runVars == <<browser, closes, captures, first>>

\* What the layer-tree-changed events of the capture carried (history):
\*   first : what the first event delivered after the listener was
\*           registered carried: "layers", "empty" (no layers), "none" yet
\*   early : an event with layers was delivered before the registration
\*   late  : an event with layers was delivered after that first event,
\*           before the race of 112-115 was settled
VARIABLE delivered

NoneDelivered == [first |-> "none", early |-> FALSE, late |-> FALSE]

\* Two compareCompositorData calls for the same name that overlap: each is
\* at "idle", "capturing" (289-295 or 306 done, the capture awaited),
\* "captured" (the capture has written its file and returned) or
\* "returned"; found is what existsSync (293) gave it, data the artifact it
\* captured, status what it returned.  before is the baseline file when
\* the first of them started (history).
VARIABLE overlap

\* The command line tools, run several times in one directory.
\*   cli : the run of capture-compositor.js: where comparePages is (pc), the
\*         files baseline.json and actual.json, the baseline it holds,
\*         whether it reused the stored one, the number of the run; and as
\*         history the two files when the run started and the writes of
\*         baseline.json made during the run
\*   pix : the run of capture-pixels.js: where comparePages is, the
\*         screenshot taken, the images of the three folders, what
\*         matchImageSnapshot and comparePages returned; and as history the
\*         folders when the run started
VARIABLES cli, pix

cliVars == <<cli, pix>>

vars == <<svcVars, env, capVars, fnVars, runVars, delivered, overlap, cliVars>>

MaxCaptures == 2     \* captures of one page in a run of the service
CliCaptures == 2     \* comparePages captures the baseline and the actual

NoFirst ==
    [layers |-> <<>>, okLayers |-> {}, result |-> [kind |-> "none", data |-> NoFile]]

MaxEvents == 2       \* layer-tree-changed events delivered during one capture

Impls == {"service", "cli"}

\* the stages that are calls; a failing call throws
LayerStages == {"make", "log", "release"}
TryStages == {"setup", "scroll", "domText", "metadata", "writeFile"}
CatchStages == {"catchMetadata", "catchWriteFile"}
CliStages == {"setup", "scroll", "close"}
CallStages == LayerStages \cup TryStages \cup CatchStages \cup CliStages

Pending == [state |-> "pending", value |-> <<>>]
Resolved(v) == [state |-> "resolved", value |-> v]

NoResult == [kind |-> "none", data |-> NoFile]

\* where the capture goes after the layer loop (service 177; cli 131-132)
AfterLoop(commands) ==
    IF impl = "service" THEN [pc |-> "domText", idx |-> 0]
    ELSE IF Len(commands) = 0 THEN [pc |-> "make", idx |-> 0]
    ELSE [pc |-> "close", idx |-> 0]

\* where it goes after layer i, be it done or caught (for ... of layers)
AfterLayer(i, commands) ==
    IF i >= 1 /\ i < Len(layers) THEN [pc |-> "make", idx |-> i + 1]
    ELSE IF i >= 1 THEN AfterLoop(commands)
    ELSE [pc |-> "close", idx |-> 0]

\* where it goes once the race has given detectedLayers (117-123, 86-93)
AfterRace(detectedLayers) ==
    IF Len(detectedLayers) > 0 THEN [pc |-> "make", idx |-> 1]
    ELSE AfterLoop(<<>>)

\* the command log the protocol returns for the snapshot at hand
CommandLog == IF idx = 0 THEN cpage.docLog ELSE layers[idx].log

\* what the service returns (245-263, 267-285) and what the CLI returns
\* (165-173)
ServiceDataStamped(kind) ==
    [CaptureResult("home", now,
                   [kind |-> kind, layerCount |-> Len(layers),
                    commands |-> ProcessCommands(allCommands),
                    metadata |-> cpage.meta, faulty |-> outerFault]).data
        EXCEPT !.hash.ms = captures]
ServiceData(kind) ==
    CaptureResult("home", now,
                  [kind |-> kind, layerCount |-> Len(layers),
                   commands |-> ProcessCommands(allCommands),
                   metadata |-> cpage.meta, faulty |-> outerFault]).data

CliData ==
    [commands |-> allCommands,
     hash |-> [tag |-> "sha256", ser |-> allCommands, ms |-> 0],
     count |-> Len(allCommands)]

Send ==
    /\ pc \in CallStages
    /\ ~awaiting
    /\ awaiting' = TRUE
    /\ outstanding' = outstanding \cup {<<pc, idx>>}
    /\ attempted' = IF pc = "make" THEN attempted \cup {idx} ELSE attempted
    /\ releaseSent' = IF pc = "release" THEN releaseSent \cup {idx} ELSE releaseSent
    /\ UNCHANGED <<impl, cpage, pc, idx, layers, listener, layerPromise, events,
                   snapshots, allCommands, result, made, okLayers, outerFault,
                   raceBy>>

AnsweredUnawaited ==
    /\ awaiting
    /\ <<pc, idx>> \in outstanding
    /\ awaiting' = FALSE
    /\ outstanding' = outstanding
Answered ==
    /\ awaiting
    /\ <<pc, idx>> \in outstanding
    /\ awaiting' = FALSE
    /\ outstanding' = outstanding \ {<<pc, idx>>}

\* the catch of the layer loop (172-174; cli 126-128, 152-154)
LayerCatchRethrows ==
    /\ pc' = IF impl = "service" THEN "catchMetadata" ELSE "close"
    /\ idx' = 0
    /\ UNCHANGED <<allCommands, result, outerFault>>
\* the snapshot of 'document' taken outside any try
LayerCatchInLoopOnly ==
    IF idx = 0
    THEN /\ pc' = "rejected"
         /\ idx' = 0
         /\ result' = [kind |-> "rejected", data |-> NoFile]
         /\ UNCHANGED <<allCommands, outerFault>>
    ELSE /\ pc' = AfterLayer(idx, allCommands).pc
         /\ idx' = AfterLayer(idx, allCommands).idx
         /\ UNCHANGED <<allCommands, result, outerFault>>
LayerCatch ==
    /\ pc' = AfterLayer(idx, allCommands).pc
    /\ idx' = AfterLayer(idx, allCommands).idx
    /\ UNCHANGED <<allCommands, result, outerFault>>

\* the log has arrived: 135-169 of the service, 105-120 of the CLI
ProcessLogPrepends ==
    LET dec == DecodeCommandLog(CommandLog)
    IN  IF impl = "service"
        THEN IF dec.isArray /\ FilterThrows(dec.cmds)
             THEN LayerCatch /\ UNCHANGED okLayers
             ELSE /\ allCommands' =
                        (IF dec.isArray THEN FilterCommands(dec.cmds) ELSE <<>>)
                        \o allCommands
                  /\ okLayers' = okLayers \cup {idx}
                  /\ pc' = "release"
                  /\ UNCHANGED <<idx, result, outerFault>>
        ELSE /\ allCommands' = IF CommandLog.shape # "none"
                               THEN Append(allCommands, CommandLog)
                               ELSE allCommands
             /\ okLayers' = okLayers \cup {idx}
             /\ pc' = "release"
             /\ UNCHANGED <<idx, result, outerFault>>

ProcessLogParseFatal ==
    LET dec == DecodeCommandLog(CommandLog)
    IN  IF impl = "service"
        THEN IF CommandLog.shape = "text" /\ CommandLog.body = "bad"
             THEN /\ pc' = "catchMetadata"
                  /\ idx' = 0
                  /\ UNCHANGED <<allCommands, result, outerFault, okLayers>>
             ELSE IF dec.isArray /\ FilterThrows(dec.cmds)
             THEN LayerCatch /\ UNCHANGED okLayers
             ELSE /\ allCommands' = allCommands \o
                        (IF dec.isArray THEN FilterCommands(dec.cmds) ELSE <<>>)
                  /\ okLayers' = okLayers \cup {idx}
                  /\ pc' = "release"
                  /\ UNCHANGED <<idx, result, outerFault>>
        ELSE /\ allCommands' = IF CommandLog.shape # "none"
                               THEN Append(allCommands, CommandLog)
                               ELSE allCommands
             /\ okLayers' = okLayers \cup {idx}
             /\ pc' = "release"
             /\ UNCHANGED <<idx, result, outerFault>>

ProcessLog ==
    LET dec == DecodeCommandLog(CommandLog)
    IN  IF impl = "service"
        THEN IF dec.isArray /\ FilterThrows(dec.cmds)
             THEN LayerCatch /\ UNCHANGED okLayers
             ELSE /\ allCommands' = allCommands \o
                        (IF dec.isArray THEN FilterCommands(dec.cmds) ELSE <<>>)
                  /\ okLayers' = okLayers \cup {idx}
                  /\ pc' = "release"
                  /\ UNCHANGED <<idx, result, outerFault>>
        ELSE /\ allCommands' = IF CommandLog.shape # "none"
                               THEN Append(allCommands, CommandLog)
                               ELSE allCommands
             /\ okLayers' = okLayers \cup {idx}
             /\ pc' = "release"
             /\ UNCHANGED <<idx, result, outerFault>>

Succeed ==
    /\ Answered
    /\ UNCHANGED <<impl, cpage, layers, layerPromise, events, attempted,
                   releaseSent, raceBy>>
    /\ listener' = IF pc = "setup" THEN "registered" ELSE listener
    /\ snapshots' = CASE pc = "make" -> snapshots \cup {idx}
                      [] pc = "release" -> snapshots \ {idx}
                      [] OTHER -> snapshots
    /\ made' = IF pc = "make" THEN made \cup {idx} ELSE made
    /\ CASE pc = "setup" ->
              /\ pc' = "scroll"
              /\ UNCHANGED <<idx, allCommands, result, okLayers, outerFault>>
         [] pc = "scroll" ->
              /\ pc' = "race"
              /\ UNCHANGED <<idx, allCommands, result, okLayers, outerFault>>
         [] pc = "make" ->
              /\ pc' = "log"
              /\ UNCHANGED <<idx, allCommands, result, okLayers, outerFault>>
         [] pc = "log" -> ProcessLog
         [] pc = "release" ->
              /\ pc' = AfterLayer(idx, allCommands).pc
              /\ idx' = AfterLayer(idx, allCommands).idx
              /\ UNCHANGED <<allCommands, result, okLayers, outerFault>>
         [] pc = "domText" ->
              /\ allCommands' = allCommands \o TextCommands(cpage.texts)
              /\ pc' = "metadata"
              /\ UNCHANGED <<idx, result, okLayers, outerFault>>
         [] pc = "metadata" ->
              /\ pc' = "writeFile"
              /\ UNCHANGED <<idx, allCommands, result, okLayers, outerFault>>
         [] pc = "writeFile" ->
              /\ pc' = "done"
              /\ result' = [kind |-> "data", data |-> ServiceData("data")]
              /\ UNCHANGED <<idx, allCommands, okLayers, outerFault>>
         [] pc = "catchMetadata" ->
              /\ pc' = "catchWriteFile"
              /\ UNCHANGED <<idx, allCommands, result, okLayers, outerFault>>
         [] pc = "catchWriteFile" ->
              /\ pc' = "done"
              /\ result' = [kind |-> "error", data |-> ServiceData("error")]
              /\ UNCHANGED <<idx, allCommands, okLayers, outerFault>>
         [] pc = "close" ->
              /\ pc' = "done"
              /\ result' = [kind |-> "data", data |-> CliData]
              /\ UNCHANGED <<idx, allCommands, okLayers, outerFault>>

Fail ==
    /\ Answered
    /\ UNCHANGED <<impl, cpage, layers, listener, layerPromise, events,
                   snapshots, made, attempted, releaseSent, okLayers, raceBy>>
    /\ IF pc \in LayerStages
       THEN LayerCatch
       ELSE /\ outerFault' = TRUE
            /\ idx' = 0
            /\ UNCHANGED allCommands
            /\ IF impl = "service" /\ pc \in TryStages
               THEN pc' = "catchMetadata" /\ UNCHANGED result
               ELSE /\ pc' = "rejected"
                    /\ result' = [kind |-> "rejected", data |-> NoFile]

Running == pc \notin {"idle", "done", "rejected", "aborted", "ended"}

\* the history of the events, after one more with or without layers
Heard(withLayers) ==
    [first |-> IF listener # "none" /\ delivered.first = "none"
               THEN (IF withLayers THEN "layers" ELSE "empty")
               ELSE delivered.first,
     early |-> delivered.early \/ (withLayers /\ listener = "none"),
     late |-> delivered.late
              \/ (withLayers /\ delivered.first # "none" /\ raceBy = "none")]

\* the browser delivers a layer-tree-changed event, with or without layers;
\* the once-listener (102-104) sees the first one after its registration
DeliverEventOn ==
    /\ Running
    /\ events < MaxEvents
    /\ events' = events + 1
    /\ \E withLayers \in BOOLEAN :
          /\ listener' = listener
          /\ layerPromise' =
                IF listener = "registered" /\ withLayers /\ layerPromise = Pending
                THEN Resolved(cpage.layers)
                ELSE layerPromise
          /\ delivered' = Heard(withLayers)
    /\ UNCHANGED <<impl, cpage, pc, awaiting, outstanding, idx, layers, snapshots,
                   allCommands, result, made, releaseSent, attempted, okLayers,
                   outerFault, raceBy>>
DeliverEvent ==
    /\ Running
    /\ events < MaxEvents
    /\ events' = events + 1
    /\ \E withLayers \in BOOLEAN :
          /\ listener' = IF listener = "registered" THEN "removed" ELSE listener
          /\ layerPromise' =
                IF listener = "registered" /\ withLayers /\ layerPromise = Pending
                THEN Resolved(cpage.layers)
                ELSE layerPromise
          /\ delivered' = Heard(withLayers)
    /\ UNCHANGED <<impl, cpage, pc, awaiting, outstanding, idx, layers, snapshots,
                   allCommands, result, made, releaseSent, attempted, okLayers,
                   outerFault, raceBy>>

\* the race of 112-115 is won by layerPromise
RaceSettled(detectedLayers, by) ==
    /\ layers' = detectedLayers
    /\ raceBy' = by
    /\ pc' = AfterRace(detectedLayers).pc
    /\ idx' = AfterRace(detectedLayers).idx
    /\ UNCHANGED <<impl, cpage, awaiting, outstanding, listener, layerPromise,
                   events, snapshots, allCommands, result, made, releaseSent,
                   attempted, okLayers, outerFault>>

LayersArrive ==
    /\ pc = "race"
    /\ layerPromise # Pending
    /\ RaceSettled(layerPromise.value, "event")

\* setTimeout(() => resolve([]), 1000) of 114
TimerNeverFires == FALSE /\ UNCHANGED vars
TimerFires ==
    /\ pc = "race"
    /\ layerPromise = Pending
    /\ RaceSettled(<<>>, "timer")

\* puppeteer.launch of the CLI's first capture (30-35), when setup is
\* answered: a setup that fails may have failed before or after the launch
Launch ==
    browser' = IF impl = "cli" /\ pc = "setup" /\ browser = "none"
               THEN "open" ELSE browser

LaunchOrNot ==
    IF impl = "cli" /\ pc = "setup" /\ browser = "none"
    THEN browser' \in {"none", "open"}
    ELSE browser' = browser

\* the next capture of the run starts, on the same page (service: the next
\* call of the test; cli 226)
Again ==
    /\ pc = "done"
    /\ captures < (IF impl = "cli" THEN CliCaptures ELSE MaxCaptures)
    /\ captures' = captures + 1
    /\ first' = IF first = NoFirst
                THEN [layers |-> layers, okLayers |-> okLayers, result |-> result]
                ELSE first
    /\ pc' = "setup"
    /\ awaiting' = FALSE /\ outstanding' = {} /\ idx' = 0 /\ layers' = <<>>
    /\ listener' = "none" /\ layerPromise' = Pending /\ events' = 0
    /\ snapshots' = {} /\ allCommands' = <<>> /\ result' = NoResult
    /\ made' = {} /\ releaseSent' = {} /\ attempted' = {} /\ okLayers' = {}
    /\ outerFault' = FALSE /\ raceBy' = "none"
    /\ delivered' = NoneDelivered
    /\ UNCHANGED <<impl, cpage, browser, closes>>

\* comparePages fails to write baseline.json or actual.json (214, 233)
RunAborts ==
    /\ impl = "cli"
    /\ pc = "done"
    /\ pc' = "aborted"
    /\ UNCHANGED <<impl, cpage, awaiting, outstanding, idx, layers, listener,
                   layerPromise, events, snapshots, allCommands, result,
                   made, releaseSent, attempted, okLayers, outerFault, raceBy>>
    /\ UNCHANGED runVars

\* the end of comparePages (272-276), after its last capture
CloseBrowser ==
    /\ impl = "cli"
    /\ pc = "done"
    /\ pc' = "ended"
    /\ IF browser = "open"
       THEN browser' = "closed" /\ closes' = closes + 1
       ELSE UNCHANGED <<browser, closes>>
    /\ UNCHANGED <<impl, cpage, awaiting, outstanding, idx, layers, listener,
                   layerPromise, events, snapshots, allCommands, result,
                   made, releaseSent, attempted, okLayers, outerFault, raceBy>>
    /\ UNCHANGED <<captures, first>>

(***************************************************************************)
(* Specifications.                                                         *)
(***************************************************************************)
IdleRun ==
    /\ browser = "none" /\ closes = 0 /\ captures = 0 /\ first = NoFirst
    /\ delivered = NoneDelivered

NoCompare == [pc |-> "idle", found |-> FALSE, data |-> NoFile, status |-> "none"]

IdleOverlap == overlap = [before |-> NoFile, call |-> [p \in 1..2 |-> NoCompare]]

IdleCli == cli = [pc |-> "idle"] /\ pix = [pc |-> "idle"]

IdleCapture ==
    /\ impl = "service" /\ cpage = PageEmpty /\ pc = "idle"
    /\ awaiting = FALSE /\ outstanding = {} /\ idx = 0 /\ layers = <<>>
    /\ listener = "none" /\ layerPromise = Pending /\ events = 0
    /\ snapshots = {} /\ allCommands = <<>> /\ result = NoResult
    /\ made = {} /\ releaseSent = {} /\ attempted = {} /\ okLayers = {}
    /\ outerFault = FALSE /\ raceBy = "none"

\* the pages a test shows: the screenshot is all the pixel strategy reads
ShownPages == IF options.mode = "pixel" THEN PixelPages ELSE Pages

Called == calls < MaxCalls /\ calls' = calls + 1

Capture ==
    /\ Called
    /\ \E name \in Names, page \in ShownPages : capture(name, page)
    /\ UNCHANGED <<capVars, fnVars, runVars, env, delivered, overlap, cliVars>>

Compare ==
    /\ Called
    /\ \E name \in Names, page \in ShownPages : compare(name, page)
    /\ UNCHANGED <<capVars, fnVars, runVars, env, delivered, overlap, cliVars>>

Next == Capture \/ Compare

Init == InitService /\ IdleCapture /\ IdleFn /\ IdleRun /\ IdleOverlap /\ IdleCli

Spec == Init /\ [][Next]_vars

\* one capture, of either implementation, of any page
InitCapture ==
    /\ options = [updateBaseline |-> FALSE, mode |-> "compositor",
                  pixelThreshold |-> DefaultThreshold]
    /\ now = 0
    /\ fs = [baseline |-> EmptyDir, actual |-> EmptyDir, diff |-> EmptyDir]
    /\ last = NoCall
    /\ created = [n \in Names |-> NoFile]
    /\ calls = 0
    /\ env = [CI |-> Undefined, mode |-> Undefined]
    /\ impl \in Impls
    /\ cpage \in CapturePages
    /\ pc = "setup"
    /\ awaiting = FALSE /\ outstanding = {} /\ idx = 0 /\ layers = <<>>
    /\ listener = "none" /\ layerPromise = Pending /\ events = 0
    /\ snapshots = {} /\ allCommands = <<>> /\ result = NoResult
    /\ made = {} /\ releaseSent = {} /\ attempted = {} /\ okLayers = {}
    /\ outerFault = FALSE /\ raceBy = "none"
    /\ IdleFn
    /\ browser = "none" /\ closes = 0 /\ captures = 1 /\ first = NoFirst
    /\ delivered = NoneDelivered
    /\ IdleOverlap
    /\ IdleCli

NextCapture ==
    \/ (Send /\ UNCHANGED <<svcVars, env, fnVars, runVars, delivered, overlap, cliVars>>)
    \/ (Succeed /\ Launch /\ UNCHANGED <<svcVars, env, fnVars, closes, captures, first, delivered, overlap, cliVars>>)
    \/ (Fail /\ LaunchOrNot /\ UNCHANGED <<svcVars, env, fnVars, closes, captures, first, delivered, overlap, cliVars>>)
    \/ (Again /\ UNCHANGED <<svcVars, env, fnVars, overlap, cliVars>>)
    \/ (RunAborts /\ UNCHANGED <<svcVars, env, fnVars, delivered, overlap, cliVars>>)
    \/ (CloseBrowser /\ UNCHANGED <<svcVars, env, fnVars, delivered, overlap, cliVars>>)
    \/ (DeliverEvent /\ UNCHANGED <<svcVars, env, fnVars, runVars, overlap, cliVars>>)
    \/ (LayersArrive /\ UNCHANGED <<svcVars, env, fnVars, runVars, delivered, overlap, cliVars>>)
    \/ (TimerFires /\ UNCHANGED <<svcVars, env, fnVars, runVars, delivered, overlap, cliVars>>)

SpecCapture == InitCapture /\ [][NextCapture]_vars

\* the event loop runs a timer that is due and a continuation that is ready
FairCapture ==
    /\ SpecCapture
    /\ WF_vars(TimerFires /\ UNCHANGED <<svcVars, env, fnVars, runVars, delivered, overlap, cliVars>>)
    /\ WF_vars(LayersArrive /\ UNCHANGED <<svcVars, env, fnVars, runVars, delivered, overlap, cliVars>>)

\* the pure functions, on any two drawn command sequences
IdleService ==
    /\ options = [updateBaseline |-> FALSE, mode |-> "compositor",
                  pixelThreshold |-> DefaultThreshold]
    /\ now = 0
    /\ fs = [baseline |-> EmptyDir, actual |-> EmptyDir, diff |-> EmptyDir]
    /\ last = NoCall
    /\ created = [n \in Names |-> NoFile]
    /\ calls = 0
    /\ env = [CI |-> Undefined, mode |-> Undefined]

InitFn ==
    /\ IdleService
    /\ IdleCapture
    /\ IdleRun
    /\ IdleOverlap
    /\ IdleCli
    /\ fn = "none"
    /\ arg \in FnInputs
    /\ out = <<>>

NextFn ==
    \/ (Normalize /\ UNCHANGED <<svcVars, env, capVars, runVars, delivered, overlap, cliVars>>)
    \/ (Fingerprint /\ UNCHANGED <<svcVars, env, capVars, runVars, delivered, overlap, cliVars>>)
    \/ (Diff /\ UNCHANGED <<svcVars, env, capVars, runVars, delivered, overlap, cliVars>>)
    \/ (Decode /\ UNCHANGED <<svcVars, env, capVars, runVars, delivered, overlap, cliVars>>)
    \/ (BuildArtifacts /\ UNCHANGED <<svcVars, env, capVars, runVars, delivered, overlap, cliVars>>)

SpecFn == InitFn /\ [][NextFn]_vars

(***************************************************************************)
(* Two overlapping compareCompositorData calls for one name (289-332).     *)
(* A call runs without interruption up to its await of the capture (295,   *)
(* 306) and again from the return of the capture to its own return; the    *)
(* capture writes its file (261, 283) as it returns.                       *)
(***************************************************************************)
OverlapFile == <<"home", "json">>

\* the artifacts the capture of a call can return
OverlapArtifacts ==
    {CaptureResult("home", 0, run).data :
        run \in {r \in UNION {CaptureRuns[page] : page \in Pages} :
                    r.kind # "rejected"}}

\* existsSync (293), then the capture is started and awaited
StartCompare(p) ==
    /\ overlap.call[p].pc = "idle"
    /\ overlap' = [overlap EXCEPT
                      !.call[p] = [@ EXCEPT !.pc = "capturing",
                                            !.found = Exists(fs, "baseline", OverlapFile)]]
    /\ UNCHANGED fs

\* the capture persists its artifact and returns it (259-263, 281-285)
CaptureReturns(p) ==
    /\ overlap.call[p].pc = "capturing"
    /\ \E data \in OverlapArtifacts :
          /\ overlap' = [overlap EXCEPT
                            !.call[p] = [@ EXCEPT !.pc = "captured", !.data = data]]
          /\ fs' = AfterCapture("home", [rejected |-> FALSE, data |-> data])

\* the rest of the call: 296-302 when it found no baseline, 309-331 when it
\* found one
FinishCompare(p) ==
    LET call == overlap.call[p]
        baselineData == fs.baseline[OverlapFile]
    IN  /\ call.pc = "captured"
        /\ IF ~call.found
           THEN /\ fs' = PersistBaseline(fs, "home", call.data)
                /\ overlap' = [overlap EXCEPT
                                  !.call[p] = [@ EXCEPT !.pc = "returned",
                                                        !.status = "created"]]
           ELSE /\ fs' = fs
                /\ overlap' = [overlap EXCEPT
                                  !.call[p] =
                                      [@ EXCEPT !.pc = "returned",
                                                !.status =
                                                    IF HashesMatch(baselineData, call.data)
                                                    THEN "match" ELSE "mismatch"]]

InitOverlap ==
    /\ options = [updateBaseline |-> FALSE, mode |-> "compositor",
                  pixelThreshold |-> DefaultThreshold]
    /\ now = 0
    /\ \E stored \in {NoFile} \cup OverlapArtifacts :
          /\ fs = [baseline |-> [EmptyDir EXCEPT ![OverlapFile] = stored],
                   actual |-> EmptyDir, diff |-> EmptyDir]
          /\ overlap = [before |-> stored, call |-> [p \in 1..2 |-> NoCompare]]
    /\ last = NoCall
    /\ created = [n \in Names |-> NoFile]
    /\ calls = 0
    /\ env = [CI |-> Undefined, mode |-> Undefined]
    /\ IdleCapture
    /\ IdleFn
    /\ IdleRun
    /\ IdleCli

OverlapFrame ==
    UNCHANGED <<options, now, last, created, calls, env, capVars, fnVars,
                runVars, delivered, cliVars>>

NextOverlap ==
    \/ (\E p \in 1..2 : StartCompare(p) /\ OverlapFrame)
    \/ (\E p \in 1..2 : CaptureReturns(p) /\ OverlapFrame)
    \/ (\E p \in 1..2 : FinishCompare(p) /\ OverlapFrame)

SpecOverlap == InitOverlap /\ [][NextOverlap]_vars

(***************************************************************************)
(* comparePages of the command line tool (capture-compositor.js 176-277,   *)
(* capture.js 145-200), run several times in one directory: baseline.json  *)
(* and actual.json stay from one run to the next.  extractPaintCommands is *)
(* taken as one step that returns the command logs it collected, or throws.*)
(***************************************************************************)
MaxRuns == 2         \* runs of a command line tool

\* the content of a file: none, text that is no JSON, or an object with a
\* hash (EmptyHash: absent or ''), a count and the command logs
Missing == [kind |-> "missing"]
Garbage == [kind |-> "garbage"]
EmptyHash == [tag |-> "none", ser |-> <<>>, ms |-> 0]
Json(written) ==
    [kind |-> "json", commands |-> written.commands, hash |-> written.hash,
     count |-> written.count]

\* what extractPaintCommands returns for the logs it collected (165-173)
CliResult(commands) ==
    [commands |-> commands,
     hash |-> [tag |-> "sha256", ser |-> commands, ms |-> 0],
     count |-> Len(commands)]

\* the results the captures of the test page can give: no log, the log of
\* 'document', the logs of the layers that could be snapshotted
CliResults ==
    {CliResult(logs) :
        logs \in {<<>>, <<PageStatic.docLog>>, <<PageStatic.layers[1].log>>,
                  <<PageStatic.layers[1].log, PageStatic.layers[2].log>>}}

\* a file left by something else: an object without hash
NoHashFile == Json([CliResult(<<PageStatic.docLog>>) EXCEPT !.hash = EmptyHash])

\* 176-190: null when the file cannot be read or parsed
loadExistingCommands(file) ==
    IF file.kind = "json"
    THEN [null |-> FALSE,
          value |-> [commands |-> file.commands, hash |-> file.hash,
                     count |-> file.count]]
    ELSE [null |-> TRUE, value |-> CliResult(<<>>)]

\* baseline && baseline.hash && baseline.count > 0 of 198
ValidBaselineByHash(loaded) == ~loaded.null /\ loaded.value.hash # EmptyHash
ValidBaseline(loaded) ==
    /\ ~loaded.null
    /\ loaded.value.hash # EmptyHash
    /\ loaded.value.count > 0

\* a run of the tool about to start, with the files it finds
CliRun(baselineJson, actualJson, n) ==
    [pc |-> "start", baselineJson |-> baselineJson, actualJson |-> actualJson,
     baseline |-> CliResult(<<>>), reused |-> FALSE, identical |-> FALSE,
     runs |-> n, before |-> baselineJson, beforeActual |-> actualJson,
     writes |-> 0]

CliOutcomes == {"ok", "extractThrows", "writeThrows"}

\* 196-204
LoadBaseline ==
    /\ cli.pc = "start"
    /\ LET loaded == loadExistingCommands(cli.baselineJson)
       IN  cli' = IF ValidBaseline(loaded)
                  THEN [cli EXCEPT !.pc = "actual", !.baseline = loaded.value,
                                   !.reused = TRUE]
                  ELSE [cli EXCEPT !.pc = "baseline"]
    /\ UNCHANGED pix

\* 205-222: the new baseline is captured and baseline.json written
CreateBaseline ==
    /\ cli.pc = "baseline"
    /\ \E captured \in CliResults, outcome \in CliOutcomes :
          cli' = CASE outcome = "extractThrows" -> [cli EXCEPT !.pc = "rejected"]
                   [] outcome = "writeThrows" ->
                        [cli EXCEPT !.pc = "rejected", !.baseline = captured]
                   [] OTHER ->
                        [cli EXCEPT !.pc = "actual", !.baseline = captured,
                                    !.baselineJson = Json(captured),
                                    !.writes = @ + 1]
    /\ UNCHANGED pix

\* 224-276: the actual is captured, actual.json written, the hashes compared
CaptureActual ==
    /\ cli.pc = "actual"
    /\ \E captured \in CliResults, outcome \in CliOutcomes :
          cli' = CASE outcome = "extractThrows" -> [cli EXCEPT !.pc = "rejected"]
                   [] outcome = "writeThrows" -> [cli EXCEPT !.pc = "rejected"]
                   [] OTHER ->
                        [cli EXCEPT !.pc = "done",
                                    !.actualJson = Json(captured),
                                    !.identical = (cli.baseline.hash = captured.hash)]
    /\ UNCHANGED pix

\* the tool is run again
CliAgain ==
    /\ cli.pc \in {"done", "rejected", "reset"}
    /\ cli.runs < MaxRuns
    /\ cli' = CliRun(cli.baselineJson, cli.actualJson, cli.runs + 1)
    /\ UNCHANGED pix

\* the tool run with --reset or --clean (294-335)
CliReset ==
    /\ cli.pc \in {"done", "rejected"}
    /\ cli' = [cli EXCEPT !.pc = "reset", !.baselineJson = Missing,
                          !.actualJson = Missing]
    /\ UNCHANGED pix

InitCliCompare ==
    /\ IdleService
    /\ IdleCapture
    /\ IdleFn
    /\ IdleRun
    /\ IdleOverlap
    /\ pix = [pc |-> "idle"]
    /\ cli \in {CliRun(file, Missing, 1) : file \in {Missing, Garbage, NoHashFile}}

CliFrame == UNCHANGED <<svcVars, env, capVars, fnVars, runVars, delivered, overlap>>

NextCliCompare ==
    \/ (LoadBaseline /\ CliFrame)
    \/ (CreateBaseline /\ CliFrame)
    \/ (CaptureActual /\ CliFrame)
    \/ (CliAgain /\ CliFrame)
    \/ (CliReset /\ CliFrame)

SpecCliCompare == InitCliCompare /\ [][NextCliCompare]_vars

(***************************************************************************)
(* comparePages of the pixel tool (capture-pixels.js 23-215), run several  *)
(* times in one directory: the baseline, actual and diff folders stay from *)
(* one run to the next.  The snapshot name is always test-page.png, so a   *)
(* folder is the one file it can hold.                                     *)
(***************************************************************************)
\* a file that is no PNG
CorruptPng == [corrupt |-> TRUE]

\* PNG.sync.read gives an image with data (85-97)
Decodes(file) == file # NoFile /\ file # CorruptPng

\* 163-166
imagesHaveSameSize(firstImage, secondImage) ==
    firstImage.h = secondImage.h /\ firstImage.w = secondImage.w

\* sharp(...).resize({height, width}) of 104-107: the pixels resampled
Resize(image, width, height) ==
    Image(width, height,
          [i \in 1..(width * height) |-> image.px[((i - 1) % Len(image.px)) + 1]])

\* what matchImageSnapshot returns: null (97), the comparison (149-154),
\* the first run (158-161)
NullResult == [kind |-> "null"]
FirstRun == [kind |-> "firstRun", match |-> TRUE, firstRun |-> TRUE]
Comparison(mismatchedPixels, totalPixels) ==
    [kind |-> "compared", match |-> mismatchedPixels = 0,
     diffPercentage |-> (mismatchedPixels * 100) \div totalPixels,
     mismatchedPixels |-> mismatchedPixels, totalPixels |-> totalPixels]

\* baselineScreenshotExists ? actualScreenshotPath : baselineScreenshotPath
SnapshotPathBaseline(baselineScreenshotExists) == "baseline"
SnapshotPath(baselineScreenshotExists) ==
    IF baselineScreenshotExists THEN "actual" ELSE "baseline"

\* 54-162.  folders: the files of the baseline, actual and diff folders
\* and resize-<name> of the actual folder; actualUnreadable: the image
\* just written cannot be read back; unlinkFails: an unlink fails (caught)
matchImageSnapshot(imageData, folders, actualUnreadable, unlinkFails) ==
    LET baselineScreenshotExists == folders.baseline # NoFile
        written == [folders EXCEPT ![SnapshotPath(baselineScreenshotExists)] = imageData]
        baseLineImage == written.baseline
        actualImage == written.actual
        resized == ~imagesHaveSameSize(baseLineImage, actualImage)
        compareWith == IF resized
                       THEN Resize(actualImage, baseLineImage.w, baseLineImage.h)
                       ELSE actualImage
        mismatchedPixels ==
            pixelmatch(baseLineImage, compareWith, baseLineImage.w, baseLineImage.h, 0)
    IN  IF ~baselineScreenshotExists
        THEN [folders |-> written, result |-> FirstRun]
        ELSE IF ~Decodes(baseLineImage) \/ ~Decodes(actualImage) \/ actualUnreadable
        THEN [folders |-> written, result |-> NullResult]
        ELSE [folders |->
                 [written EXCEPT
                     !.resized = IF resized /\ unlinkFails THEN compareWith ELSE @,
                     !.diff = IF mismatchedPixels = 0
                              THEN (IF unlinkFails THEN @ ELSE NoFile)
                              ELSE Image(baseLineImage.w, baseLineImage.h, <<>>)],
              result |-> Comparison(mismatchedPixels, baseLineImage.w * baseLineImage.h)]

NoFolders == [baseline |-> NoFile, actual |-> NoFile, diff |-> NoFile, resized |-> NoFile]
NoReturn == [method |-> "none"]

\* a run of the tool about to start, with the folders it finds
PixRun(folders, n) ==
    [pc |-> "start", folders |-> folders, imageData |-> NoFile,
     result |-> NullResult, returned |-> NoReturn, faulty |-> FALSE,
     runs |-> n, before |-> folders]

\* captureScreenshot (23-52, 178): a call of it may throw
PixScreenshot ==
    /\ pix.pc = "start"
    /\ \E page \in PixelPages, throws \in BOOLEAN :
          pix' = IF throws
                 THEN [pix EXCEPT !.pc = "rejected", !.faulty = TRUE]
                 ELSE [pix EXCEPT !.pc = "captured", !.imageData = page.png]
    /\ UNCHANGED cli

\* 181-214: matchImageSnapshot, the result displayed (190-201, where
\* result.firstRun is read), the result returned
PixMatch ==
    /\ pix.pc = "captured"
    /\ \E writeThrows \in BOOLEAN, actualUnreadable \in BOOLEAN, unlinkFails \in BOOLEAN :
          LET m == matchImageSnapshot(pix.imageData, pix.folders,
                                      actualUnreadable, unlinkFails)
          IN  pix' =
                IF writeThrows
                THEN [pix EXCEPT !.pc = "rejected", !.faulty = TRUE]
                ELSE IF m.result = NullResult
                THEN [pix EXCEPT !.pc = "rejected", !.folders = m.folders,
                                 !.result = m.result]
                ELSE [pix EXCEPT
                         !.pc = "resolved", !.folders = m.folders,
                         !.result = m.result,
                         !.returned =
                             [method |-> "pixel-comparison", match |-> m.result.match,
                              diffPercentage |->
                                  IF m.result = FirstRun THEN 0
                                  ELSE m.result.diffPercentage]]
    /\ UNCHANGED cli

\* the tool is run again
PixAgain ==
    /\ pix.pc \in {"resolved", "rejected", "reset"}
    /\ pix.runs < MaxRuns
    /\ pix' = PixRun(pix.folders, pix.runs + 1)
    /\ UNCHANGED cli

\* the tool run with --reset or --clean (231-250)
PixReset ==
    /\ pix.pc \in {"resolved", "rejected"}
    /\ pix' = [pix EXCEPT !.pc = "reset", !.folders = NoFolders]
    /\ UNCHANGED cli

InitPixelCli ==
    /\ IdleService
    /\ IdleCapture
    /\ IdleFn
    /\ IdleRun
    /\ IdleOverlap
    /\ cli = [pc |-> "idle"]
    /\ pix \in {PixRun([NoFolders EXCEPT !.baseline = file], 1) :
                   file \in {NoFile, CorruptPng}}

NextPixelCli ==
    \/ (PixScreenshot /\ CliFrame)
    \/ (PixMatch /\ CliFrame)
    \/ (PixAgain /\ CliFrame)
    \/ (PixReset /\ CliFrame)

SpecPixelCli == InitPixelCli /\ [][NextPixelCli]_vars

(***************************************************************************)
(* Properties of the service (Spec).                                       *)
(***************************************************************************)
BaselineFile(call) == <<call.name, IF call.mode = "pixel" THEN "png" ELSE "json">>

Compared == last.op = "compare" /\ last.outcome = "returned"

\* C1: in both strategies a compare(name) that returns while no baseline was
\* stored for name returns 'created' and leaves a baseline stored; a compare
\* that finds a baseline never returns 'created', and a baseline once created
\* stays stored, so 'created' is not returned for name again.
C1_FirstRunCreates ==
    /\ Compared =>
          /\ last.pre = NoFile =>
                /\ last.status = "created"
                /\ Exists(fs, "baseline", BaselineFile(last))
          /\ last.pre # NoFile => last.status \in {"match", "mismatch"}
    /\ \A n \in Names :
          created[n] # NoFile =>
              \E kind \in {"json", "png"} : Exists(fs, "baseline", <<n, kind>>)

\* a compare that found the baseline an earlier compare created
C1_Witness ==
    /\ Compared
    /\ last.status \in {"match", "mismatch"}
    /\ created[last.name] # NoFile

C3_MatchIffHashOfStoredBaseline ==
    ( /\ Compared
      /\ last.mode = "compositor"
      /\ last.pre # NoFile )
    => /\ last.status \in {"match", "mismatch"}
       /\ (last.status = "match") <=> (last.pre.hash = last.data.hash)

\* C3 as amended: that holds with updateBaseline = false; with
\* updateBaseline = true the capture replaces the baseline before it is
\* loaded, and the call returns 'match'.
C3_MatchIffHashUnlessUpdating ==
    ( /\ Compared
      /\ last.mode = "compositor"
      /\ last.pre # NoFile )
    => /\ last.status \in {"match", "mismatch"}
       /\ ~options.updateBaseline =>
             ((last.status = "match") <=> (last.pre.hash = last.data.hash))
       /\ options.updateBaseline =>
             /\ last.status = "match"
             /\ fs.baseline[BaselineFile(last)] = last.data

\* both branches of the amended claim: a mismatch without updateBaseline ...
C3_Witness ==
    /\ Compared
    /\ last.mode = "compositor"
    /\ last.pre # NoFile
    /\ ~options.updateBaseline
    /\ last.status = "mismatch"
    /\ ~last.pre.error /\ ~last.data.error

\* C5: captureCompositorData never rejects.
C5_CaptureNeverRejects ==
    (last.op = "capture" /\ last.mode = "compositor") => last.outcome = "returned"

\* C6: compare(name), in both modes and from every reachable state of the
\* stores, resolves to a result with status created, match or mismatch, even
\* when no call it makes on the browser or the file system fails.
C6_CompareAlwaysResolves ==
    (last.op = "compare" /\ ~last.faulty) =>
        /\ last.outcome = "returned"
        /\ last.status \in {"created", "match", "mismatch"}


\* C15: the mode is the one given to the constructor when one is given,
\* else pixel when CI is set and compositor when it is not; capture and
\* compare run the pixel variant exactly when the mode is pixel, and the
\* fingerprint variant otherwise.
C15_StrategySelection ==
    /\ env.mode # Undefined => options.mode = env.mode
    /\ (env.mode = Undefined /\ env.CI # Undefined) => options.mode = "pixel"
    /\ (env.mode = Undefined /\ env.CI = Undefined) => options.mode = "compositor"
    /\ last.op \in {"capture", "compare"} =>
          last.mode = (IF options.mode = "pixel" THEN "pixel" ELSE "compositor")

C15_Witness ==
    /\ env.mode = Undefined /\ env.CI # Undefined
    /\ last.op = "compare" /\ last.mode = "pixel"
    /\ last.outcome = "returned"

\* the artifacts the fingerprint strategy has persisted or just returned
FingerprintArtifacts ==
    {fs[dir][<<n, "json">>] : dir \in {"baseline", "actual"}, n \in Names}
    \cup (IF last.mode = "compositor" /\ last.outcome = "returned"
          THEN {last.data} ELSE {})

\* C16: every artifact of the fingerprint strategy, the error-marked one
\* included, has mode 'compositor' and a command sequence.
C16_ArtifactModeCompositor ==
    \A a \in FingerprintArtifacts \ {NoFile} :
        /\ a.mode = "compositor"
        /\ a.commands \in Seq({c \in Range(a.commands) : TRUE})

PixelCompared ==
    /\ last.op = "compare" /\ last.mode = "pixel"
    /\ last.pre # NoFile

\* C17: a pixel compare against a baseline whose dimensions differ from
\* the image just captured, no call of which failed, returns match or
\* mismatch.
C17_ResizedNotFailed ==
    ( /\ PixelCompared
      /\ ~last.faulty
      /\ ~options.updateBaseline
      /\ \/ fs.actual[<<last.name, "png">>].w # last.pre.w
         \/ fs.actual[<<last.name, "png">>].h # last.pre.h ) =>
        /\ last.outcome = "returned"
        /\ last.status \in {"match", "mismatch"}

\* C18: after a pixel compare against a baseline has returned, the diff
\* image of the name exists exactly when the compare found mismatched
\* pixels.
C18_DiffImageIffMismatch ==
    (PixelCompared /\ last.outcome = "returned") =>
        (Exists(fs, "diff", <<last.name, "diff.png">>) <=> last.mismatchedPixels > 0)

\* C19: a pixel compare that returned reports 0 mismatched pixels and a
\* match for identical images, and at least one mismatched pixel and a
\* mismatch when some pixel differs by more than the configured
\* threshold, 0 included.
C19_ThresholdRespected ==
    (PixelCompared /\ last.outcome = "returned") =>
        LET baseline == last.baselineData
            actual == last.data
        IN  /\ baseline = actual =>
                  (last.mismatchedPixels = 0 /\ last.status = "match")
            /\ (\E i \in 1..Len(baseline.px) :
                    PixelMismatch(baseline.px[i], actual.px[i], options.pixelThreshold)) =>
                  (last.mismatchedPixels >= 1 /\ last.status = "mismatch")

FingerprintCompared ==
    /\ Compared
    /\ last.mode = "compositor"
    /\ last.pre # NoFile

\* C21: a compareCompositorData that finds a baseline and returns, returns
\* 'mismatch' when the baseline it loaded or the artifact it captured is
\* error-marked, another error-marked artifact included.
C21_ErrorNeverMatches ==
    (FingerprintCompared /\ (last.baselineData.error \/ last.data.error)) =>
        last.status = "mismatch"

\* C23 as stated: a compare(name) that finds a baseline for name leaves the
\* baseline file as it was, for every option setting.
C23_BaselineUnchanged ==
    (last.op = "compare" /\ last.pre # NoFile) =>
        fs.baseline[BaselineFile(last)] = last.pre

\* C23 as amended: it leaves the baseline file as it was when updateBaseline
\* is false, whether it returns or rejects; with updateBaseline = true a
\* compare that returns has replaced the baseline by the artifact it
\* captured.
C23_BaselineUnchangedUnlessUpdating ==
    (last.op = "compare" /\ last.pre # NoFile) =>
        /\ ~options.updateBaseline => fs.baseline[BaselineFile(last)] = last.pre
        /\ (options.updateBaseline /\ last.outcome = "returned") =>
              fs.baseline[BaselineFile(last)] = last.data

\* a compare with updateBaseline = true that replaced a different baseline
C23_Witness ==
    /\ Compared
    /\ last.pre # NoFile
    /\ options.updateBaseline
    /\ fs.baseline[BaselineFile(last)] = last.data
    /\ last.data # last.pre

DiffEntries(diff) == Len(diff.added) + Len(diff.removed) + Len(diff.modified)

\* C26: a compareCompositorData that returns 'mismatch' returns a diff that
\* is not null and has an entry in added, removed or modified; one that
\* returns 'match' returns a null diff.
C26_DiffMatchesStatus ==
    FingerprintCompared =>
        /\ last.status = "mismatch" =>
              (last.diff # NoDiff /\ DiffEntries(last.diff) > 0)
        /\ last.status = "match" => last.diff = NoDiff

\* the file a capture of the last call's mode writes for its name
CaptureFile(call) == <<call.name, IF call.mode = "pixel" THEN "png" ELSE "json">>

\* C34: a capture(name) that returns has written exactly one file, the
\* artifact it returns, into the baseline directory when updateBaseline is
\* true and into the actual directory otherwise; every other file of the
\* three directories is as before the call.  This holds for the artifact of
\* a capture that succeeded, for the error-marked artifact and for the
\* screenshot of the pixel strategy.
C34_CaptureWritesOneStore ==
    [][(last'.op = "capture" /\ calls' = calls + 1 /\ last'.outcome = "returned") =>
          LET dir == IF options.updateBaseline THEN "baseline" ELSE "actual"
          IN  /\ last'.data # NoFile
              /\ fs' = [fs EXCEPT ![dir][CaptureFile(last')] = last'.data]]_vars

\* an error-marked artifact written over a stored baseline while updating,
\* the actual directory left empty
C34_Witness ==
    /\ last.op = "capture" /\ last.mode = "compositor"
    /\ last.outcome = "returned"
    /\ last.data.error
    /\ options.updateBaseline
    /\ last.pre # NoFile
    /\ fs.baseline[CaptureFile(last)] = last.data
    /\ fs.actual = EmptyDir

(***************************************************************************)
(* Properties of one capture (SpecCapture, FairCapture).                   *)
(***************************************************************************)
Returned == pc = "done"

\* what the loop adds to allCommands for layer i
LayerYield(i) ==
    LET log == IF i = 0 THEN cpage.docLog ELSE layers[i].log
        dec == DecodeCommandLog(log)
    IN  IF i \notin okLayers THEN <<>>
        ELSE IF impl = "service"
             THEN IF dec.isArray THEN FilterCommands(dec.cmds) ELSE <<>>
             ELSE IF log.shape # "none" THEN <<log>> ELSE <<>>

RECURSIVE LayerYields(_)
LayerYields(n) == IF n = 0 THEN <<>> ELSE LayerYields(n - 1) \o LayerYield(n)

ScriptLikeText(command) ==
    /\ command.method = "drawTextBlob"
    /\ Get(command.params, "text").kind = "string"
    /\ LooksLikeScript(Get(command.params, "text"))

\* C4: when a capture returns, every snapshot handle it obtained with
\* makeSnapshot has been given to releaseSnapshot, also when the command
\* log request or the processing of the log failed.
C4_SnapshotsReleased == Returned => made \subseteq releaseSent

\* C7: the wait for the layer tree ends: a capture that awaits the race
\* leaves it, and when the timer ends the race the discovered layers are
\* the empty set and the capture goes on without an error.
C7_LayerWaitEnds ==
    /\ [](raceBy = "timer" =>
             /\ layers = <<>>
             /\ pc # "race"
             /\ ~outerFault => pc \notin {"catchMetadata", "catchWriteFile", "rejected"})
    /\ ((pc = "race") ~> (pc # "race"))

C7_Witness ==
    /\ Returned
    /\ raceBy = "timer"
    /\ events > 0
    /\ result.kind = "data"

\* C8: a capture whose only failures are per-layer ones returns a result
\* that is no error, has tried every discovered layer, and holds, in layer
\* order, the commands of every layer whose extraction succeeded.
C8_LayerFailureIsSkipped ==
    (Returned /\ ~outerFault) =>
        /\ result.kind = "data"
        /\ \A i \in 1..Len(layers) : i \in attempted
        /\ impl = "service" =>
              result.data.commands =
                  ProcessCommands(LayerYields(Len(layers)) \o TextCommands(cpage.texts))
        /\ impl = "cli" =>
              result.data.commands = LayerYields(Len(layers)) \o LayerYield(0)

C8_Witness ==
    /\ Returned
    /\ ~outerFault
    /\ result.kind = "data"
    /\ \E i \in 1..Len(layers), j \in 1..Len(layers) :
          /\ i < j
          /\ i \in attempted /\ i \notin okLayers
          /\ j \in okLayers /\ Len(LayerYield(j)) > 0

\* C9: in the service and in the CLI, a capture that discovered no layer,
\* or got no command from any layer, has tried a snapshot of the layer
\* 'document' when it returns its result.
C9_DocumentFallback ==
    (Returned /\ result.kind = "data" /\ Len(LayerYields(Len(layers))) = 0) =>
        0 \in attempted

\* C10: the result of a capture of the service holds no drawTextBlob
\* command (by its resolved name) with a script-like text, be it from a
\* layer log or from the DOM text nodes.
C10_NoScriptLikeText ==
    (impl = "service" /\ Returned /\ result.kind = "data") =>
        \A k \in 1..Len(result.data.commands) :
            ~ScriptLikeText(result.data.commands[k])

\* C13: two captures of the same unchanged page, of which the second
\* discovered the same layers and got the command logs of the same layers
\* as the first, return the same command sequence and the same hash.
C13_SameLayersSameFingerprint ==
    ( /\ Returned
      /\ first # NoFirst
      /\ result.kind = "data" /\ first.result.kind = "data"
      /\ layers = first.layers
      /\ okLayers = first.okLayers ) =>
        /\ result.data.commands = first.result.data.commands
        /\ result.data.hash = first.result.data.hash

C13_Witness ==
    /\ Returned
    /\ captures = 2
    /\ result.kind = "data" /\ first.result.kind = "data"
    /\ layers = first.layers /\ Len(layers) > 0
    /\ okLayers = first.okLayers /\ okLayers # {}
    /\ Len(result.data.commands) > 0
    /\ events > 0

\* C20: when a run of the CLI is over, by its end or by a capture or a
\* file write that threw, the browser it launched is closed, and it was
\* closed once.
C20_BrowserClosedOnce ==
    (impl = "cli" /\ pc \in {"ended", "rejected", "aborted"}) =>
        /\ browser # "open"
        /\ browser = "closed" => closes = 1

\* C22: within one capture at most one protocol command is outstanding,
\* the one the capture is awaiting: a command is sent only when the one
\* before it has been answered.
C22_OneCommandOutstanding ==
    /\ Cardinality(outstanding) <= 1
    /\ outstanding \subseteq {<<pc, idx>>}
    /\ outstanding # {} => awaiting

\* a command awaited after earlier ones were answered
C22_Witness ==
    /\ pc = "log" /\ idx = 2
    /\ awaiting
    /\ outstanding = {<<"log", 2>>}
    /\ 1 \in releaseSent

\* C25: once the wait for the layers is over, the layers discovered are
\* those of the first event delivered after the listener was registered:
\* none when that event carried no layers (the timer ends the wait, also
\* when a later event carried layers) and none when no event was delivered
\* after the registration, whatever was delivered before it.
C25_FirstEventDecides ==
    raceBy # "none" =>
        /\ delivered.first = "empty" => (layers = <<>> /\ raceBy = "timer")
        /\ delivered.first = "none" => (layers = <<>> /\ raceBy = "timer")
        /\ raceBy = "event" =>
              (delivered.first = "layers" /\ layers = cpage.layers)

\* the first event had no layers, a later one within the wait had some
C25_Witness ==
    /\ Returned
    /\ delivered.first = "empty"
    /\ delivered.late
    /\ Len(cpage.layers) > 0
    /\ raceBy = "timer"
    /\ layers = <<>>

\* C27: the commands of an artifact of the service are the commands of the
\* layers in layer order, each layer's in log order, followed by the text
\* commands synthesized from the DOM, none of which precedes a layer
\* command.
C27_LayersThenText ==
    (impl = "service" /\ Returned /\ result.kind = "data") =>
        LET fromLayers == ProcessCommands(LayerYields(Len(layers)))
            fromDom == ProcessCommands(TextCommands(cpage.texts))
            commands == result.data.commands
        IN  /\ Len(commands) = Len(fromLayers) + Len(fromDom)
            /\ \A k \in 1..Len(commands) :
                  commands[k] = IF k <= Len(fromLayers)
                                THEN fromLayers[k]
                                ELSE fromDom[k - Len(fromLayers)]

C27_Witness ==
    /\ impl = "service" /\ Returned /\ result.kind = "data"
    /\ Len(layers) = 2
    /\ Len(LayerYield(1)) > 0 /\ Len(LayerYield(2)) > 0
    /\ LayerYield(1) # LayerYield(2)
    /\ Len(cpage.texts) > 0

Garbled(log) == log.shape = "text" /\ log.body = "bad"

\* what layer i is to add: nothing when its log cannot be decoded
Contribution(i) == IF Garbled(layers[i].log) THEN <<>> ELSE LayerYield(i)

RECURSIVE Contributions(_)
Contributions(n) ==
    IF n = 0 THEN <<>> ELSE Contributions(n - 1) \o Contribution(n)

\* C29: a capture of the service in which no call outside the layer loop
\* failed returns no error artifact also when the log of a layer is text
\* that cannot be decoded: that layer adds no commands, its snapshot is
\* given to releaseSnapshot, and the other layers are processed.
C29_UndecodableLogIsEmpty ==
    (impl = "service" /\ Returned /\ ~outerFault) =>
        /\ result.kind = "data"
        /\ result.data.commands =
              ProcessCommands(Contributions(Len(layers)) \o TextCommands(cpage.texts))
        /\ \A i \in 1..Len(layers) :
              Garbled(layers[i].log) =>
                  /\ i \in okLayers => i \in releaseSent
                  /\ \A j \in 1..Len(layers) : j \in attempted

C29_Witness ==
    /\ impl = "service" /\ Returned /\ ~outerFault
    /\ cpage = PageGarbled
    /\ Len(layers) = 2
    /\ okLayers = {1, 2}
    /\ releaseSent = {1, 2}
    /\ result.kind = "data"
    /\ Len(result.data.commands) = 2

\* the capture of the service, taken step by step, returns what the
\* service's capture run returns
StepwiseAgrees ==
    (impl = "service" /\ Returned) =>
        \E run \in CaptureRuns[cpage] :
            /\ run.kind = result.kind
            /\ result.data = CaptureResult("home", now, run).data

\* what extractPaintCommands returns when it has no command log at all
EmptyCliData ==
    [commands |-> <<>>, hash |-> [tag |-> "sha256", ser |-> <<>>, ms |-> 0],
     count |-> 0]

\* C31: when no layer yields a command log and the snapshot of 'document'
\* yields none either (it fails, or its log is empty), extractPaintCommands
\* returns the empty command sequence with count 0 and the hash of the
\* empty sequence; it throws only when a call outside the layer loop and
\* the fallback fails.
C31_EmptyCaptureReturns ==
    impl = "cli" =>
        /\ (Returned /\ allCommands = <<>>) =>
              /\ 0 \in attempted
              /\ result = [kind |-> "data", data |-> EmptyCliData]
        /\ pc = "rejected" => outerFault
        /\ (pc = "close" /\ allCommands = <<>>) => 0 \in attempted

\* layers were found, none gave a log, and the snapshot of 'document' failed
C31_Witness ==
    /\ impl = "cli" /\ Returned
    /\ layers # <<>> /\ okLayers = {}
    /\ 0 \in attempted /\ 0 \notin made
    /\ result.data.count = 0
    /\ result.data.commands = <<>>

(***************************************************************************)
(* Properties of the pure functions (SpecFn).                              *)
(***************************************************************************)
\* the fields the normaliser is to leave out: text-run blobs, font handles,
\* resource ids
DenyList == {"blob", "typeface", "imageId"}

Keys(params) == {params[i][1] : i \in 1..Len(params)}

\* params as a mapping: its key-value pairs, whatever their order
Mapping(params) == {params[i] : i \in 1..Len(params)}

SameMappings(a, b) ==
    /\ Len(a) = Len(b)
    /\ \A i \in 1..Len(a) :
          /\ a[i].method = b[i].method
          /\ Mapping(a[i].params) = Mapping(b[i].params)

\* C11: no normalised command holds a deny-listed parameter (text-run
\* blob, font handle, resource id): the normaliser drops them.
C11_NoDenyListedParam ==
    fn = "normalize" =>
        \A i \in 1..Len(out.a) : Keys(out.a[i].params) \cap DenyList = {}

\* C12: two command sequences that are equal as mappings, whatever the
\* order of the keys of their params, have the same hash.
C12_HashIgnoresKeyOrder ==
    (fn = "hash" /\ SameMappings(ProcessCommands(arg.a), ProcessCommands(arg.b)))
        => out.a = out.b

\* C14: generateDiff classifies every index below the longer length: only
\* in actual gives added (i, actual[i]); only in baseline gives removed
\* (i, baseline[i]); in both and unequal gives modified (i, baseline[i],
\* actual[i]); equal gives nothing; each index at most once.  Baseline
\* [A,B,C] and actual [A,X,C,D] give modified {1:(B,X)}, added {3:D},
\* removed {}.
C14_DiffClassifiesEveryIndex ==
    fn = "generateDiff" =>
        LET baseline == ProcessCommands(arg.a)
            actual == ProcessCommands(arg.b)
            both == {i \in 0..(Len(baseline) - 1) : i < Len(actual)}
            onlyActual == {i \in 0..(Len(actual) - 1) : i >= Len(baseline)}
            onlyBaseline == {i \in 0..(Len(baseline) - 1) : i >= Len(actual)}
            unequal == {i \in both : baseline[i + 1] # actual[i + 1]}
        IN  /\ Range(out.added) =
                  {[index |-> i, command |-> actual[i + 1]] : i \in onlyActual}
            /\ Len(out.added) = Cardinality(onlyActual)
            /\ Range(out.removed) =
                  {[index |-> i, command |-> baseline[i + 1]] : i \in onlyBaseline}
            /\ Len(out.removed) = Cardinality(onlyBaseline)
            /\ Range(out.modified) =
                  {[index |-> i, baseline |-> baseline[i + 1],
                    actual |-> actual[i + 1]] : i \in unequal}
            /\ Len(out.modified) = Cardinality(unequal)
            /\ (arg.a = ExampleBaseline /\ arg.b = ExampleActual) =>
                  /\ out.modified = << [index |-> 1,
                                        baseline |-> ProcessCommand(DrawText(Plain)),
                                        actual |-> ProcessCommand(CmdLeftTop)] >>
                  /\ out.added = << [index |-> 3,
                                     command |-> ProcessCommand(CmdTextRun)] >>
                  /\ out.removed = <<>>

C14_Witness ==
    /\ fn = "generateDiff"
    /\ arg.a = ExampleBaseline /\ arg.b = ExampleActual
    /\ Len(out.modified) = 1 /\ Len(out.added) = 1

\* the first of the fields that is populated, 'unknown' when none is
FirstPopulated(fields) ==
    IF \E k \in 1..Len(fields) : TruthyName(fields[k])
    THEN fields[CHOOSE k \in 1..Len(fields) :
                    /\ TruthyName(fields[k])
                    /\ \A j \in 1..(k - 1) : ~TruthyName(fields[j])]
    ELSE "unknown"

\* C28: the normalised sequence has the length of the raw one and, at each
\* position, the method that is the first populated of the raw entry's
\* method, cmd and name ('unknown' when none is), with the entry's params.
C28_MethodFromFirstAlias ==
    fn = "normalize" =>
        /\ Len(out.a) = Len(arg.a)
        /\ \A i \in 1..Len(arg.a) :
              /\ out.a[i].method =
                    FirstPopulated(<<arg.a[i].method, arg.a[i].cmd, arg.a[i].name>>)
              /\ out.a[i].params = arg.a[i].params

C28_Witness ==
    /\ fn = "normalize"
    /\ arg.a = <<CmdEmptyMethod, CmdUnnamed>>
    /\ out.a[1].method = "rect"
    /\ out.a[2].method = "unknown"

\* C30: a command list gives the same normalised commands when its log
\* arrives as text as when it arrives as the native value: a sequence, a
\* single object, an object with a commands field.
C30_ShapesAgree ==
    fn = "decode" => out.text = out.native

\* C38: the hash of a non-error artifact is a function of its normalised
\* commands only: two captures with equal command sequences have equal
\* hashes whatever their name, timestamp, layerCount and metadata.
C38_HashOfCommandsOnly ==
    fn = "artifact" =>
        /\ out.a.hash = Hash(out.a.commands)
        /\ out.b.hash = Hash(out.b.commands)
        /\ out.a.commands = out.b.commands => out.a.hash = out.b.hash

\* the same commands captured under another name, later, with another
\* number of layers and on another url
C38_Witness ==
    /\ fn = "artifact"
    /\ out.a.error = FALSE /\ out.b.error = FALSE
    /\ out.a.commands = out.b.commands /\ out.a.commands # <<>>
    /\ out.a.name # out.b.name
    /\ out.a.timestamp # out.b.timestamp
    /\ out.a.layerCount # out.b.layerCount
    /\ out.a.metadata # out.b.metadata
    /\ out.a.hash = out.b.hash

\* sequence s with command c put in at index k (counted from 0)
InsertAt(s, k, c) == SubSeq(s, 1, k) \o <<c>> \o SubSeq(s, k + 1, Len(s))

\* the indices at which actual is baseline with one command inserted
Insertions(baseline, actual) ==
    {k \in 0..Len(baseline) :
        /\ Len(actual) = Len(baseline) + 1
        /\ actual = InsertAt(baseline, k, actual[k + 1])}

IndexSet(entries) == {entries[j].index : j \in 1..Len(entries)}

\* what generateDiff reports of an insertion at index k: nothing removed,
\* one entry added at index len(baseline), and modified exactly the indices
\* from k to len(baseline) - 1 at which the two sequences differ
InsertionCascades(baseline, actual, k) ==
    LET differing == {i \in k..(Len(baseline) - 1) : actual[i + 1] # baseline[i + 1]}
    IN  /\ out.removed = <<>>
        /\ Len(out.added) = 1
        /\ out.added[1].index = Len(baseline)
        /\ IndexSet(out.modified) = differing
        /\ Len(out.modified) = Cardinality(differing)

\* C32 as stated: for actual equal to baseline with one command inserted
\* at index k, generateDiff returns removed empty, added with exactly one
\* entry at index len(baseline) and modified exactly the differing indices
\* of k..len(baseline)-1, and the insertion is never reported as a single
\* added entry at k.
C32_InsertionNeverAddedAtK ==
    fn = "generateDiff" =>
        LET baseline == ProcessCommands(arg.a)
            actual == ProcessCommands(arg.b)
        IN  \A k \in Insertions(baseline, actual) :
                /\ InsertionCascades(baseline, actual, k)
                /\ ~(Len(out.added) = 1 /\ out.added[1].index = k)

\* C32 amended: the same classification, and the single added entry is at
\* index k exactly when the command was put in at the end, k = len(baseline).
C32_InsertionCascades ==
    fn = "generateDiff" =>
        LET baseline == ProcessCommands(arg.a)
            actual == ProcessCommands(arg.b)
        IN  \A k \in Insertions(baseline, actual) :
                /\ InsertionCascades(baseline, actual, k)
                /\ (Len(out.added) = 1 /\ out.added[1].index = k)
                       <=> k = Len(baseline)

\* a command put in front of a different one: index 0 modified, index 1 added
C32_Witness ==
    /\ fn = "generateDiff"
    /\ arg.a = <<DrawRect>>
    /\ arg.b = <<CmdTextRun, DrawRect>>
    /\ 0 \in Insertions(ProcessCommands(arg.a), ProcessCommands(arg.b))
    /\ IndexSet(out.modified) = {0}
    /\ IndexSet(out.added) = {1}

\* C33: for all command sequences given to generateDiff the index sets of
\* added, removed and modified are pairwise disjoint, added and removed are
\* never both non-empty, every added index is at least len(baseline) and
\* every removed index at least len(actual), and all three are empty
\* exactly when the sequences have equal length and equal commands at
\* every index.
C33_DiffIndexSets ==
    fn = "generateDiff" =>
        LET baseline == ProcessCommands(arg.a)
            actual == ProcessCommands(arg.b)
            added == IndexSet(out.added)
            removed == IndexSet(out.removed)
            modified == IndexSet(out.modified)
        IN  /\ added \cap removed = {}
            /\ added \cap modified = {}
            /\ removed \cap modified = {}
            /\ out.added = <<>> \/ out.removed = <<>>
            /\ \A i \in added : i >= Len(baseline)
            /\ \A i \in removed : i >= Len(actual)
            /\ (out.added = <<>> /\ out.removed = <<>> /\ out.modified = <<>>)
                   <=> (/\ Len(baseline) = Len(actual)
                        /\ \A i \in 1..Len(baseline) : baseline[i] = actual[i])

\* a longer baseline whose first command differs: one removed, one modified
C33_Witness ==
    /\ fn = "generateDiff"
    /\ Len(arg.a) = 2 /\ Len(arg.b) = 1
    /\ IndexSet(out.removed) = {1}
    /\ IndexSet(out.modified) = {0}

(***************************************************************************)
(* Properties of the command line tools (SpecCliCompare).                  *)
(***************************************************************************)
\* the file can be read and parsed, has a non-empty hash and count > 0
ReadableAndValid(file) ==
    /\ file.kind = "json"
    /\ file.hash # EmptyHash
    /\ file.count > 0

CliLoaded == cli.pc \in {"baseline", "actual", "done", "rejected"}

\* C35: comparePages reuses the stored baseline.json exactly when it is
\* readable and has a non-empty hash and count > 0, and then never writes
\* it; otherwise it captures a new baseline and has overwritten
\* baseline.json with it before it captures the actual, so a baseline with
\* no command logs is replaced on every run.
C35_BaselineReusedIffValid ==
    CliLoaded =>
        /\ cli.reused <=> ReadableAndValid(cli.before)
        /\ cli.reused =>
              /\ cli.writes = 0
              /\ cli.baselineJson = cli.before
              /\ Json(cli.baseline) = cli.before
        /\ (~cli.reused /\ cli.pc \in {"actual", "done"}) =>
              /\ cli.writes = 1
              /\ cli.baselineJson = Json(cli.baseline)
        /\ (~cli.reused /\ cli.pc = "actual") => cli.actualJson = cli.beforeActual
        /\ (cli.before.kind = "json" /\ cli.before.count = 0) => ~cli.reused

\* the second run finds the baseline the first one stored with no command
\* logs and replaces it
C35_Witness ==
    /\ cli.pc = "done" /\ cli.runs = 2
    /\ cli.before.kind = "json" /\ cli.before.count = 0
    /\ cli.before.hash # EmptyHash
    /\ ~cli.reused /\ cli.writes = 1
    /\ cli.baselineJson.count > 0

(***************************************************************************)
(* Properties of the pixel tool (SpecPixelCli).                            *)
(***************************************************************************)
\* matchImageSnapshot has run and returned in this run
PixMatched == pix.pc \in {"resolved", "rejected"} /\ ~pix.faulty

C37_PixelRunResolves ==
    PixMatched =>
        /\ pix.pc = "resolved"
        /\ pix.returned.method = "pixel-comparison"
        /\ pix.returned.match \in BOOLEAN
        /\ pix.returned.diffPercentage \in 0..100

(***************************************************************************)
(* Properties of two overlapping compares (SpecOverlap).                   *)
(***************************************************************************)
BothReturned == \A p \in 1..2 : overlap.call[p].pc = "returned"

\* what a compare run alone returns and stores, given the baseline file it
\* finds and the artifact it captures
SerialStatus(baseline, data) ==
    IF baseline = NoFile THEN "created"
    ELSE IF HashesMatch(baseline, data) THEN "match" ELSE "mismatch"

SerialBaseline(baseline, data) == IF baseline = NoFile THEN data ELSE baseline

\* the statuses and the baseline are those of call p run before call q
SerialOrder(p, q) ==
    LET afterP == SerialBaseline(overlap.before, overlap.call[p].data)
    IN  /\ overlap.call[p].status = SerialStatus(overlap.before, overlap.call[p].data)
        /\ overlap.call[q].status = SerialStatus(afterP, overlap.call[q].data)
        /\ fs.baseline[OverlapFile] = SerialBaseline(afterP, overlap.call[q].data)

\* C24: when two overlapping compare(name) calls have returned, their
\* statuses and the stored baseline are those of one of the two serial
\* orders of the calls; started without a baseline, one of them returned
\* 'created' and the baseline is the artifact it captured.
C24_OverlapIsSerial == BothReturned => (SerialOrder(1, 2) \/ SerialOrder(2, 1))
====
